---- MODULE Spec2Model ----
(***************************************************************************)
(* A model of the table engine of server.js: the registry `tables`, the    *)
(* command catalogue of POST /api/command, the row endpoints, the rules    *)
(* engine and the string-rewriting ExpressionEvaluator.                    *)
(*                                                                         *)
(* JavaScript values are records [t, s, n]: a number (t = "num", value n), *)
(* a string (t = "str", text s), NaN or undefined.  Numbers are integers.  *)
(* Column descriptors {name, type} are objects with identity: they live in *)
(* `heap` and a schema is a sequence of references into it, so that two    *)
(* schemas holding the same descriptor object are visible as such.         *)
(* The evaluator works on the expression text; the text is held as a       *)
(* sequence of lexical tokens and every pass of the evaluator is the       *)
(* rewriting its regular expression performs on that text.                 *)
(***************************************************************************)
EXTENDS Integers, Sequences, FiniteSets, TLC

\* ------------------------------------------------------------------ bounds
MaxSteps == 3
MaxNum == 12

NumRange == (0 - MaxNum)..MaxNum

\* ------------------------------------------------------- JavaScript values
Num(n) == [t |-> "num", s |-> "", n |-> n]
Str(s) == [t |-> "str", s |-> s, n |-> 0]
NaN == [t |-> "nan", s |-> "", n |-> 0]
Undefined == [t |-> "undef", s |-> "", n |-> 0]

\* String(value)
String(v) ==
  CASE v.t = "num" -> ToString(v.n)
    [] v.t = "str" -> v.s
    [] v.t = "nan" -> "NaN"
    [] OTHER -> "undefined"

\* value is falsy: 0, NaN, '', undefined
Falsy(v) ==
  \/ v.t = "num" /\ v.n = 0
  \/ v.t = "str" /\ v.s = ""
  \/ v.t \in {"nan", "undef"}

\* a || b
OrElse(a, b) == IF Falsy(a) THEN b ELSE a

\* Texts that start with a number and go on with something that is no digit:
\* the tails the model's strings can have after a leading decimal number.
NumTails == {"", ".0", "abc"}

\* The number a text starts with (parseFloat and parseInt agree on the texts of
\* the model: an optional sign, digits, and a tail of NumTails), or NaN.
LeadingNumber(s) ==
  IF \E n \in NumRange, tl \in NumTails : s = ToString(n) \o tl
  THEN Num(CHOOSE n \in NumRange : \E tl \in NumTails : s = ToString(n) \o tl)
  ELSE NaN

\* parseFloat(value): the argument is turned into a string first
parseFloat(v) == LeadingNumber(String(v))

\* parseInt(value, 10)
parseInt(v) == LeadingNumber(String(v))

\* Number.isInteger(value)
IsInteger(v) == v.t = "num"

\* ------------------------------------------------- expression text (tokens)
\* The expression text as the evaluator's regular expressions see it: digits
\* (an unsigned number), a double-quoted or single-quoted string, a word, an
\* operator or punctuation mark, a run of white space.
TNum(n) == [k |-> "num", s |-> "", n |-> n]
TDq(s) == [k |-> "dq", s |-> s, n |-> 0]
TSq(s) == [k |-> "sq", s |-> s, n |-> 0]
TId(s) == [k |-> "id", s |-> s, n |-> 0]
TOp(s) == [k |-> "op", s |-> s, n |-> 0]
TWs == [k |-> "ws", s |-> " ", n |-> 0]

\* String(number) as text: a negative number is a minus sign and digits
NumToks(n) == IF n < 0 THEN <<TOp("-"), TNum(0 - n)>> ELSE <<TNum(n)>>

TokText(tk) ==
  CASE tk.k = "num" -> ToString(tk.n)
    [] tk.k = "dq" -> "\"" \o tk.s \o "\""
    [] tk.k = "sq" -> "'" \o tk.s \o "'"
    [] OTHER -> tk.s

RECURSIVE Render(_)
Render(e) == IF e = <<>> THEN "" ELSE TokText(Head(e)) \o Render(Tail(e))

\* Texts of the model that hold one of the characters = < > ! + - * / ^
OpCharTexts == {"2026/11/12"}
HasOpChar(s) == s \in OpCharTexts

\* The text s read again as expression text (s is empty, a decimal integer,
\* a decimal integer followed by the word abc, or one word: the texts the
\* model's cells and literals hold)
Lex(s) ==
  IF s = "" THEN <<>>
  ELSE IF \E n \in NumRange : s = ToString(n)
       THEN NumToks(CHOOSE n \in NumRange : s = ToString(n))
       ELSE IF \E n \in NumRange : s = ToString(n) \o "abc"
       THEN NumToks(CHOOSE n \in NumRange : s = ToString(n) \o "abc") \o <<TId("abc")>>
       ELSE <<TId(s)>>

\* A row's value as it is spliced into the expression text:
\* typeof value === 'string' ? `"${value}"` : String(value)
FieldToks(v) == IF v.t = "str" THEN <<TDq(v.s)>> ELSE IF v.t = "num" THEN NumToks(v.n) ELSE <<TId(String(v))>>

RECURSIVE TrimLeft(_)
TrimLeft(e) == IF e # <<>> /\ Head(e).k = "ws" THEN TrimLeft(Tail(e)) ELSE e
RECURSIVE TrimRight(_)
TrimRight(e) ==
  IF e # <<>> /\ e[Len(e)].k = "ws" THEN TrimRight(SubSeq(e, 1, Len(e) - 1)) ELSE e
Trim(e) == TrimRight(TrimLeft(e))

\* \d+ : number tokens that stand side by side are the digits of one number
\* (a replacement can put a number directly after another)
RECURSIVE DigitRun(_, _)
DigitRun(e, i) == IF i <= Len(e) /\ e[i].k = "num" THEN 1 + DigitRun(e, i + 1) ELSE 0
RECURSIVE Digits(_)
Digits(n) == IF n < 10 THEN 1 ELSE 1 + Digits(n \div 10)
RECURSIVE Pow10(_)
Pow10(d) == IF d = 0 THEN 1 ELSE 10 * Pow10(d - 1)
RECURSIVE DigitsValue(_)
DigitsValue(e) ==
  IF e = <<>> THEN 0
  ELSE DigitsValue(SubSeq(e, 1, Len(e) - 1)) * Pow10(Digits(e[Len(e)].n)) + e[Len(e)].n

\* parseFloat of an expression text: its leading number, or NaN
ParseFloatToks(e0) ==
  LET Leading(e) ==
        IF e # <<>> /\ e[1].k = "num" THEN Num(DigitsValue(SubSeq(e, 1, DigitRun(e, 1))))
        ELSE IF Len(e) >= 2 /\ e[1] = TOp("-") /\ e[2].k = "num"
             THEN Num(0 - DigitsValue(SubSeq(e, 2, 1 + DigitRun(e, 2))))
        ELSE NaN
  IN  Leading(TrimLeft(e0))

Ok(e) == [ok |-> TRUE, toks |-> e, err |-> ""]
Throw(msg) == [ok |-> FALSE, toks |-> <<>>, err |-> msg]

\* --------------------------------------------- one global regex replacement
RECURSIVE SkipWs(_, _)
SkipWs(e, i) == IF i <= Len(e) /\ e[i].k = "ws" THEN SkipWs(e, i + 1) ELSE i

\* Tokens the operand pattern takes at i: \d+ ; with dq also "[^"]*" ; with
\* signed also -?\d+ . 0 when the pattern does not match there.
OperandLen(e, i, signed, dq) ==
  IF i > Len(e) THEN 0
  ELSE IF e[i].k = "num" THEN DigitRun(e, i)
  ELSE IF dq /\ e[i].k = "dq" THEN 1
  ELSE IF signed /\ e[i] = TOp("-") /\ i < Len(e) /\ e[i + 1].k = "num"
       THEN 1 + DigitRun(e, i + 1)
  ELSE 0

\* (operand)\s*op\s*(operand) tried at position i
MatchBin(e, i, op, signed, dq) ==
  LET Found(l, j, k, r) ==
        IF l > 0 /\ j <= Len(e) /\ e[j] = TOp(op) /\ r > 0
        THEN [ok |-> TRUE, left |-> SubSeq(e, i, i + l - 1),
              right |-> SubSeq(e, k, k + r - 1), next |-> k + r]
        ELSE [ok |-> FALSE, left |-> <<>>, right |-> <<>>, next |-> i + 1]
      Right(l, j, k) == Found(l, j, k, OperandLen(e, k, signed, dq))
      Operator(l, j) == Right(l, j, SkipWs(e, j + 1))
      Left(l) == Operator(l, SkipWs(e, i + l))
  IN  Left(OperandLen(e, i, signed, dq))

\* _toNumber of a piece of expression text
toNumber(e) ==
  LET Value(v) == IF v.t = "num" THEN v.n ELSE 0 IN
    IF Len(e) = 1 /\ e[1].k = "dq" THEN (IF e[1].s = "" THEN 0 ELSE 1)
    ELSE Value(ParseFloatToks(e))

\* The order of the model's texts under JavaScript's < on strings
TextOrder == <<"", "12", "5", "5abc", "a", "b", "fixed", "x">>
Rank(s) == IF \E i \in 1..Len(TextOrder) : TextOrder[i] = s
           THEN CHOOSE i \in 1..Len(TextOrder) : TextOrder[i] = s
           ELSE Len(TextOrder) + 1
StrLess(a, b) == Rank(a) < Rank(b)

Bool01(b) == IF b THEN <<TNum(1)>> ELSE <<TNum(0)>>

\* A comparison without the type check, every operand taken as a number
compareValuesAsNumbers(leftStr, rightStr, operator) ==
  Ok(Bool01(CASE operator = "<" -> toNumber(leftStr) < toNumber(rightStr)
              [] operator = ">" -> toNumber(leftStr) > toNumber(rightStr)
              [] operator = "=" -> toNumber(leftStr) = toNumber(rightStr)
              [] OTHER -> toNumber(leftStr) # toNumber(rightStr)))

compareValues(leftStr, rightStr, operator) ==
  LET leftIsString == Len(leftStr) = 1 /\ leftStr[1].k = "dq"
      rightIsString == Len(rightStr) = 1 /\ rightStr[1].k = "dq"
      Texts(a, b) == Ok(Bool01(CASE operator = "<" -> StrLess(a, b)
                                 [] operator = ">" -> StrLess(b, a)
                                 [] operator = "=" -> a = b
                                 [] OTHER -> a # b))
      Numbers(a, b) == Ok(Bool01(CASE operator = "<" -> a < b
                                   [] operator = ">" -> a > b
                                   [] operator = "=" -> a = b
                                   [] OTHER -> a # b))
  IN  IF leftIsString # rightIsString THEN Throw("Type mismatch")
      ELSE IF leftIsString THEN Texts(leftStr[1].s, rightStr[1].s)
      ELSE Numbers(toNumber(leftStr), toNumber(rightStr))

RECURSIVE Pow(_, _)
Pow(a, b) == IF b <= 0 THEN 1 ELSE a * Pow(a, b - 1)

\* The replacement a pass computes for one match
ApplyBin(kind, op, l, r) ==
  LET Arith(a, b) == Ok(NumToks(CASE op = "^" -> Pow(a, b)
                                  [] op = "*" -> a * b
                                  [] op = "/" -> a \div b
                                  [] op = "+" -> a + b
                                  [] OTHER -> a - b))
      Bool(a, b) == Ok(Bool01(IF op = "&&" THEN a # 0 /\ b # 0 ELSE a # 0 \/ b # 0))
  IN  CASE kind = "arith" -> Arith(DigitsValue(l), DigitsValue(r))
        [] kind = "bool" -> Bool(toNumber(l), toNumber(r))
        [] OTHER -> compareValues(l, r, op)

\* expr.replace(/(operand)\s*op\s*(operand)/g, f): the matches are taken left
\* to right, do not overlap, and the replaced text is not scanned again.
RECURSIVE ReplaceAll(_, _, _, _)
ReplaceAll(e, i, kind, op) ==
  LET Before(toks, rest) == IF rest.ok THEN Ok(toks \o rest.toks) ELSE rest
      Replaced(v, next) ==
        IF ~v.ok THEN v ELSE Before(v.toks, ReplaceAll(e, next, kind, op))
      At(m) ==
        IF m.ok THEN Replaced(ApplyBin(kind, op, m.left, m.right), m.next)
        ELSE Before(<<e[i]>>, ReplaceAll(e, i + 1, kind, op))
  IN  IF i > Len(e) THEN Ok(<<>>)
      ELSE At(MatchBin(e, i, op, kind = "cmp", kind # "arith"))

HasMatch(e, kind, op) ==
  \E i \in 1..Len(e) : MatchBin(e, i, op, kind = "cmp", kind # "arith").ok

\* ------------------------------------------------------ ExpressionEvaluator
\* The loops of the evaluator stop after this many rounds (iterations < 100)
MaxIterations == 100

\* new Date() as TODAY() formats it: the clock is a fixed input of the model
Today == "2026/11/12"

\* The evaluation context: this.row, and this.tables where the expressions
\* evaluated call a function that reads the registry (TOTAL)
Ctx(row) == [row |-> row]
CtxOf(row, ts, h) ==
  [row |-> row,
   tables |-> [nm \in DOMAIN ts |->
                 [schema |-> [k \in 1..Len(ts[nm].schema) |-> h[ts[nm].schema[k]]],
                  rows |-> ts[nm].rows]]]

\* --- _handleFieldReferences: every word that is an own property of the row
\* (with a value) is replaced by the value, a string value in double quotes.
\* The words inside single quotes are words too: the string literals are
\* handled after this pass.
FollowedByBracket(e, i) ==
  LET j == SkipWs(e, i + 1) IN j <= Len(e) /\ e[j] = TOp("[")

HasField(row, name) == name \in DOMAIN row /\ row[name].t # "undef"

FieldTok(e, i, row) ==
  LET tk == e[i] IN
    IF tk.k = "id" /\ ~FollowedByBracket(e, i) /\ HasField(row, tk.s)
    THEN FieldToks(row[tk.s])
    ELSE IF tk.k = "sq" /\ HasField(row, tk.s)
    THEN (IF row[tk.s].t = "str"
          THEN <<[k |-> "sqq", s |-> row[tk.s].s, n |-> 0]>>
          ELSE <<TSq(String(row[tk.s]))>>)
    ELSE <<tk>>

RECURSIVE FieldPass(_, _, _)
FieldPass(e, i, row) ==
  IF i > Len(e) THEN <<>> ELSE FieldTok(e, i, row) \o FieldPass(e, i + 1, row)

handleFieldReferences(e, ctx) == FieldPass(e, 1, ctx.row)

\* --- _handleStringLiterals: '...' becomes "..."
RECURSIVE handleStringLiterals(_)
handleStringLiterals(e) ==
  IF e = <<>> THEN <<>>
  ELSE (CASE Head(e).k = "sq" -> <<TDq(Head(e).s)>>
          [] Head(e).k = "sqq" -> <<TDq("")>> \o Lex(Head(e).s) \o <<TDq("")>>
          [] OTHER -> <<Head(e)>>) \o handleStringLiterals(Tail(e))

\* --- _handleBooleanOps
NotAt(e, i) == e[i] = TOp("!") /\ i < Len(e) /\ e[i + 1].k \in {"num", "dq"}
RECURSIVE NotReplace(_, _)
NotReplace(e, i) ==
  IF i > Len(e) THEN <<>>
  ELSE IF NotAt(e, i)
       THEN Bool01(toNumber(<<e[i + 1]>>) = 0) \o NotReplace(e, i + 2)
       ELSE <<e[i]>> \o NotReplace(e, i + 1)
RECURSIVE NotLoop(_, _)
NotLoop(e, fuel) ==
  IF fuel = 0 \/ ~(\E i \in 1..Len(e) : NotAt(e, i)) THEN e
  ELSE NotLoop(NotReplace(e, 1), fuel - 1)

RECURSIVE WhileMatch(_, _, _)
WhileMatch(e, kind, op) ==
  IF HasMatch(e, kind, op) THEN WhileMatch(ReplaceAll(e, 1, kind, op).toks, kind, op)
  ELSE e

\* after the loop for !, the loop for && and then the loop for ||
BoolOps == <<"&&", "||">>
RECURSIVE BoolPasses(_, _)
BoolPasses(e, k) ==
  IF k > Len(BoolOps) THEN e ELSE BoolPasses(WhileMatch(e, "bool", BoolOps[k]), k + 1)

handleBooleanOps(e) == BoolPasses(NotLoop(e, MaxIterations), 1)

\* --- _handleUnaryMinus: the first match of
\* (^|[\s+\-*/^(])\s*-\s*(-?\d+) is replaced by the negated number, until the
\* text no longer changes.
UMClass(tk) == tk.k = "ws" \/ (tk.k = "op" /\ tk.s \in {"+", "-", "*", "/", "^", "("})
UMValueLen(e, i) ==
  IF i <= Len(e) /\ e[i].k = "num" THEN 1
  ELSE IF i < Len(e) /\ e[i] = TOp("-") /\ e[i + 1].k = "num" THEN 2
  ELSE 0
\* the match whose \s*-\s*value part starts at token j
UMTail(e, j) ==
  LET Value(m, v, l) ==
        IF m <= Len(e) /\ e[m] = TOp("-") /\ l > 0
        THEN [ok |-> TRUE, last |-> v + l - 1,
              num |-> IF l = 2 THEN 0 - e[v + 1].n ELSE e[v].n]
        ELSE [ok |-> FALSE, last |-> 0, num |-> 0]
      Sign(m, v) == Value(m, v, UMValueLen(e, v))
      Minus(m) == Sign(m, SkipWs(e, m + 1))
  IN  Minus(SkipWs(e, j))

\* at = 0: the match starts at the start of the text (the ^ alternative)
UMMatchAt(e, p) == IF p = 0 THEN UMTail(e, 1) ELSE
                   IF UMClass(e[p]) THEN UMTail(e, p + 1) ELSE UMTail(e, Len(e) + 1)

UMStep(e) ==
  LET Negated(p, m) ==
        SubSeq(e, 1, p - 1) \o (IF p = 0 \/ e[p].k = "ws" THEN <<>> ELSE <<e[p]>>)
          \o NumToks(0 - m.num) \o SubSeq(e, m.last + 1, Len(e))
      First(p) == Negated(p, UMMatchAt(e, p))
  IN  IF \E p \in 0..Len(e) : UMMatchAt(e, p).ok
      THEN First(CHOOSE q \in 0..Len(e) :
                   UMMatchAt(e, q).ok /\ \A r \in 0..Len(e) : UMMatchAt(e, r).ok => q <= r)
      ELSE e

RECURSIVE UMLoop(_, _)
UMLoop(e, fuel) ==
  LET Again(e2) ==
        IF fuel = 0 \/ Render(e2) = Render(e) THEN e ELSE UMLoop(e2, fuel - 1)
  IN  Again(UMStep(e))

handleUnaryMinus(e) == UMLoop(e, MaxIterations)

\* --- _handleArithmetic: one global replacement for each of ^ * / + - (the
\* quoted strings are out of reach of these), then the clean-up of the result.
ArithPass(e, op) == ReplaceAll(e, 1, "arith", op).toks
ArithOps == <<"^", "*", "/", "+", "-">>
RECURSIVE ArithPasses(_, _)
ArithPasses(e, k) ==
  IF k > Len(ArithOps) THEN e ELSE ArithPasses(ArithPass(e, ArithOps[k]), k + 1)

OpChars == {"=", "<", ">", "!", "!=", "+", "-", "*", "/", "^"}
IncludesOpChar(e) ==
  \E i \in 1..Len(e) : (e[i].k = "op" /\ e[i].s \in OpChars) \/ HasOpChar(e[i].s)

\* expr.slice(1, -1) of a text that starts and ends with a double quote: what
\* was inside quotes is bare, and what was between two strings is in quotes.
RECURSIVE SliceQuotes(_, _, _)
SliceQuotes(e, i, seg) ==
  IF i > Len(e) THEN <<>>
  ELSE IF e[i].k = "dq"
       THEN (IF i = 1 THEN <<>> ELSE <<TDq(Render(seg))>>) \o Lex(e[i].s)
              \o SliceQuotes(e, i + 1, <<>>)
       ELSE SliceQuotes(e, i + 1, Append(seg, e[i]))

handleArithmetic(e) ==
  LET CleanUp(r, num) ==
        IF r # <<>> /\ r[1].k = "dq" /\ r[Len(r)].k = "dq" /\ ~IncludesOpChar(r)
        THEN SliceQuotes(r, 1, <<>>)
        ELSE IF num.t = "num" /\ Trim(r) = NumToks(num.n) THEN NumToks(num.n)
        ELSE r
      Result(r) == CleanUp(r, ParseFloatToks(r))
  IN  Result(ArithPasses(e, 1))

\* --- _handleComparisons: the passes !=, <, > and = are repeated while one of
\* them replaced something.
CmpOps == <<"!=", "<", ">", "=">>
\* The passes from the k-th on, p the outcome of the pass before: a pass that
\* throws ends the round
RECURSIVE CmpPasses(_, _, _)
CmpPasses(p, k, changed) ==
  IF ~p.ok THEN [r |-> p, changed |-> FALSE]
  ELSE IF k > Len(CmpOps) THEN [r |-> p, changed |-> changed]
  ELSE CmpPasses(ReplaceAll(p.toks, 1, "cmp", CmpOps[k]), k + 1,
                 changed \/ HasMatch(p.toks, "cmp", CmpOps[k]))

CmpRound(e) == CmpPasses(Ok(e), 1, FALSE)

RECURSIVE CmpLoop(_, _)
CmpLoop(e, fuel) ==
  LET Again(c) ==
        IF ~c.r.ok \/ ~c.changed THEN c.r ELSE CmpLoop(c.r.toks, fuel - 1)
  IN  IF fuel = 0 THEN Ok(e) ELSE Again(CmpRound(e))

handleComparisons(e) == CmpLoop(e, MaxIterations)

\* --- _handleFunctions: FUNC\s*\(args\) is replaced by the function's result,
\* a string result in double quotes.  The model's expressions call BLANK,
\* TODAY and TOTAL, with arguments that hold no parentheses.
RECURSIVE evaluateExpression(_, _)

RECURSIVE CallClose(_, _)
CallClose(e, k) ==
  IF k > Len(e) \/ e[k] = TOp("(") THEN 0
  ELSE IF e[k] = TOp(")") THEN k ELSE CallClose(e, k + 1)

FuncAt(e, i, name) ==
  /\ e[i] = TId(name)
  /\ LET j == SkipWs(e, i + 1) IN
       j <= Len(e) /\ e[j] = TOp("(") /\ CallClose(e, j + 1) # 0
FuncEnd(e, i) == CallClose(e, SkipWs(e, i + 1) + 1)
FuncArgs(e, i) == SubSeq(e, SkipWs(e, i + 1) + 1, FuncEnd(e, i) - 1)

\* _parseFunctionArgs: the arguments are split at the commas; an argument
\* that is the name of a cell with a value is that value, any other argument
\* is the result of evaluating it, or its own text when that fails.
RECURSIVE SplitArgs(_, _, _)
SplitArgs(args, i, current) ==
  IF i > Len(args) THEN (IF Trim(current) # <<>> THEN <<Trim(current)>> ELSE <<>>)
  ELSE IF args[i] = TOp(",") THEN <<Trim(current)>> \o SplitArgs(args, i + 1, <<>>)
  ELSE SplitArgs(args, i + 1, Append(current, args[i]))

Evaluated(arg, r) ==
  IF r.ok THEN [v |-> Str(Render(r.toks)), toks |-> r.toks]
  ELSE [v |-> Str(Render(arg)), toks |-> arg]

ArgValue(arg, ctx) ==
  IF Len(arg) = 1 /\ arg[1].k = "id" /\ HasField(ctx.row, arg[1].s)
  THEN [v |-> ctx.row[arg[1].s], toks |-> <<>>]
  ELSE Evaluated(arg, evaluateExpression(arg, ctx))

parseFunctionArgs(args, ctx) ==
  LET list == SplitArgs(Trim(args), 1, <<>>)
  IN  [k \in 1..Len(list) |-> ArgValue(list[k], ctx)]

\* A string argument that starts and ends with a double quote, and its
\* text without the two quotes
Quoted(a) == a.toks # <<>> /\ a.toks[1].k = "dq" /\ a.toks[Len(a.toks)].k = "dq"
Unquoted(a) == IF Quoted(a) THEN Render(SliceQuotes(a.toks, 1, <<>>)) ELSE String(a.v)

\* _getFieldValue(name) ?? name, for BLANK: an own property of the row,
\* whatever its value
FieldOrText(row, text) == IF text \in DOMAIN row THEN row[text] ELSE Str(text)

BLANK(args, ctx) ==
  LET val == IF args = <<>> THEN Undefined
             ELSE IF args[1].v.t # "str" THEN args[1].v
             ELSE IF Quoted(args[1]) THEN Str(Unquoted(args[1]))
             ELSE FieldOrText(ctx.row, args[1].v.s)
  IN  IF val \in {Str(""), Undefined, Num(0)} THEN 1 ELSE 0

\* parseFloat of a cell
CellNumber(v) == IF v.t = "str" THEN LeadingNumber(v.s) ELSE IF v.t = "num" THEN v ELSE NaN

RECURSIVE SumColumn(_, _, _)
SumColumn(rows, i, name) ==
  IF i > Len(rows) THEN 0
  ELSE (IF name \in DOMAIN rows[i] /\ CellNumber(rows[i][name]).t = "num"
        THEN CellNumber(rows[i][name]).n ELSE 0) + SumColumn(rows, i + 1, name)

TotalOf(ts, tableName, columnName) ==
  IF tableName \notin DOMAIN ts THEN 0
  ELSE LET table == ts[tableName]
           cols == {k \in 1..Len(table.schema) : table.schema[k].name = columnName}
       IN  IF cols = {} THEN 0
           ELSE IF table.schema[CHOOSE k \in cols : \A j \in cols : k <= j].type = "TEXT" THEN 0
           ELSE SumColumn(table.rows, 1, columnName)

TOTAL(args, ctx) ==
  IF Len(args) < 2 \/ Falsy(args[1].v) \/ Falsy(args[2].v) THEN 0
  ELSE TotalOf(ctx.tables, Unquoted(args[1]), Unquoted(args[2]))

FuncResult(name, args, ctx) ==
  CASE name = "BLANK" -> NumToks(BLANK(args, ctx))
    [] name = "TOTAL" -> NumToks(TOTAL(args, ctx))
    [] OTHER -> <<TDq(Today)>>

\* expr.replace(regex, ...) for one function: all its calls, left to right
RECURSIVE FuncReplace(_, _, _, _)
FuncReplace(e, i, name, ctx) ==
  IF i > Len(e) THEN <<>>
  ELSE IF FuncAt(e, i, name)
       THEN FuncResult(name, parseFunctionArgs(FuncArgs(e, i), ctx), ctx)
              \o FuncReplace(e, FuncEnd(e, i) + 1, name, ctx)
  ELSE <<e[i]>> \o FuncReplace(e, i + 1, name, ctx)

\* The functions are tried in the order of their table; after the first one
\* that replaced something the round starts again
Called(e, name) == \E i \in 1..Len(e) : FuncAt(e, i, name)
FirstCalled(e) ==
  IF Called(e, "BLANK") THEN "BLANK"
  ELSE IF Called(e, "TODAY") THEN "TODAY"
  ELSE IF Called(e, "TOTAL") THEN "TOTAL"
  ELSE ""
RECURSIVE FuncLoop(_, _, _)
FuncLoop(e, fuel, ctx) ==
  LET Round(name) ==
        IF name = "" THEN e ELSE FuncLoop(FuncReplace(e, 1, name, ctx), fuel - 1, ctx)
  IN  IF fuel = 0 THEN e ELSE Round(FirstCalled(e))

handleFunctions(e, ctx) == FuncLoop(e, MaxIterations, ctx)

\* --- _evaluateExpression
\* The scan from the right for the last ':' outside parentheses and the
\* nearest '?' to its left.
RECURSIVE ScanCond(_, _, _, _)
ScanCond(e, i, depth, colon) ==
  IF i = 0 THEN [q |-> 0, c |-> colon]
  ELSE IF e[i] = TOp(")") THEN ScanCond(e, i - 1, depth + 1, colon)
  ELSE IF e[i] = TOp("(") THEN ScanCond(e, i - 1, depth - 1, colon)
  ELSE IF depth = 0 /\ e[i] = TOp(":") /\ colon = 0 THEN ScanCond(e, i - 1, depth, i)
  ELSE IF depth = 0 /\ e[i] = TOp("?") /\ colon # 0 THEN [q |-> i, c |-> colon]
  ELSE ScanCond(e, i - 1, depth, colon)

RECURSIVE ParenPass(_, _, _, _, _)

\* Each outermost (...) is replaced by the result of evaluating its inside
ParenPass(e, i, depth, start, ctx) ==
  LET Inside(r) ==
        IF ~r.ok THEN r
        ELSE ParenPass(SubSeq(e, 1, start - 1) \o r.toks \o SubSeq(e, i + 1, Len(e)),
                       start + Len(r.toks), 0, 0, ctx)
  IN  IF i > Len(e)
      THEN (IF depth # 0 THEN Throw("Mismatched parentheses") ELSE Ok(e))
      ELSE IF e[i] = TOp("(")
      THEN ParenPass(e, i + 1, depth + 1, IF depth = 0 THEN i ELSE start, ctx)
      ELSE IF e[i] = TOp(")")
      THEN (IF depth = 1 /\ start # 0
            THEN Inside(evaluateExpression(SubSeq(e, start + 1, i - 1), ctx))
            ELSE ParenPass(e, i + 1, depth - 1, start, ctx))
      ELSE ParenPass(e, i + 1, depth, start, ctx)

evaluateExpression(e0, ctx) ==
  LET Passes(p) ==
        IF ~p.ok THEN p
        ELSE handleComparisons(
               handleArithmetic(
                 handleUnaryMinus(
                   handleBooleanOps(
                     handleStringLiterals(
                       handleFieldReferences(p.toks, ctx))))))
      Branch(e, sc, numResult) ==
        IF numResult.t = "num" /\ numResult.n # 0
        THEN evaluateExpression(SubSeq(e, sc.q + 1, sc.c - 1), ctx)
        ELSE evaluateExpression(SubSeq(e, sc.c + 1, Len(e)), ctx)
      Conditional(e, sc, cond) ==
        IF ~cond.ok THEN cond ELSE Branch(e, sc, ParseFloatToks(cond.toks))
      Scanned(e, sc) ==
        IF sc.q # 0 /\ sc.c # 0 /\ sc.q < sc.c
        THEN Conditional(e, sc, evaluateExpression(SubSeq(e, 1, sc.q - 1), ctx))
        ELSE Passes(ParenPass(handleFunctions(e, ctx), 1, 0, 0, ctx))
      Trimmed(e) == Scanned(e, ScanCond(e, Len(e), 0, 0))
  IN  Trimmed(Trim(e0))

\* evaluate(expression): the result is always a string, the rewritten text
\* (the evaluator was constructed before, with this.row set)
evaluate(expression, ctx) ==
  LET Result(r) ==
        IF r.ok THEN [ok |-> TRUE, value |-> Str(Render(r.toks)), toks |-> r.toks]
        ELSE [ok |-> FALSE, value |-> Undefined, toks |-> <<>>]
  IN  IF "row" \notin DOMAIN ctx \/ Trim(expression) = <<>>
      THEN [ok |-> FALSE, value |-> Undefined, toks |-> <<>>]
      ELSE Result(evaluateExpression(Trim(expression), ctx))


\* ===================================================================== state
\* tables : the registry, name -> [schema, rows, originalFile]; a schema is a
\*          sequence of references into heap, a row maps column names to values
\* heap   : the column descriptor objects {name, type} allocated so far
\* last   : the last request served and its response (a history variable)
\* steps  : the number of requests served
\* pending: the requests whose handler is suspended at an await or has
\*          returned, in arrival order (empty while requests come one at a time)
VARIABLES tables, heap, last, steps, pending

vars == <<tables, heap, last, steps, pending>>

\* --------------------------------------------------------- the Data directory
\* A CSV file is held as its schema line and its data lines, each line already
\* split into fields.
SalesFile ==
  [schema |-> <<"Name:TEXT", "Amount:INT", "Date:TEXT">>,
   lines |-> <<<<"a", "5", "">>, <<"b", "12", "x">>>>]
LogFile ==
  [schema |-> <<"Name:TEXT", "Amount:INT">>,
   lines |-> <<<<"a", "5">>>>]
DataDir == [f \in {"sales.CSV", "log.csv"} |-> IF f = "sales.CSV" THEN SalesFile ELSE LogFile]

\* file.replace(/\.(csv|CSV)$/i, '') and path.extname, on the names in use
CsvNames == {"sales", "log", "t2"}
StripCsv(file) ==
  IF \E b \in CsvNames : file \in {b \o ".csv", b \o ".CSV"}
  THEN CHOOSE b \in CsvNames : file \in {b \o ".csv", b \o ".CSV"}
  ELSE file
\* path.basename(file, '.CSV'): only the exact suffix is removed
BasenameUpper(file) ==
  IF \E b \in CsvNames : file = b \o ".CSV"
  THEN CHOOSE b \in CsvNames : file = b \o ".CSV"
  ELSE file

\* Rule files: name of the file -> its rules in file order. An expression is
\* held as its token sequence.
Rule(operation, columnName, expression) ==
  [operation |-> operation, columnName |-> columnName, expression |-> expression]
ExprToday == <<TId("TODAY"), TOp("("), TOp(")")>>
ExprFixed == <<TSq("fixed")>>
ExprAmountPositive == <<TId("Amount"), TWs, TOp(">"), TWs, TNum(0)>>
ExprAmountPlusOne == <<TId("Amount"), TWs, TOp("+"), TWs, TNum(1)>>
ExprNameIsA == <<TId("Name"), TWs, TOp("="), TWs, TSq("a")>>
ExprName == <<TId("Name")>>
ExprX == <<TId("X")>>
ExprAmountPlusOneUnlessX ==
  <<TId("X"), TOp(">"), TNum(0), TOp("?"), TNum(1), TOp(":")>> \o ExprAmountPlusOne
RuleFiles ==
  [f \in {"sales.RUL", "log.RUL"} |->
     IF f = "sales.RUL"
     THEN <<Rule("INIT", "Date", ExprToday),
            Rule("FIXUP", "Name", ExprFixed),
            Rule("CHECK", "Amount", ExprAmountPositive)>>
     ELSE <<Rule("FIXUP", "Amount", ExprAmountPlusOneUnlessX),
            Rule("CHECK", "Name", ExprName),
            Rule("CHECK", "X", ExprX)>>]

\* loadRules(fileName): the rules of fileName.RUL or fileName.rul, or none
loadRules(fileName) ==
  IF fileName \o ".RUL" \in DOMAIN RuleFiles THEN RuleFiles[fileName \o ".RUL"]
  ELSE IF fileName \o ".rul" \in DOMAIN RuleFiles THEN RuleFiles[fileName \o ".rul"]
  ELSE <<>>

\* ------------------------------------------------------------------ helpers
Column(name, type) == [name |-> name, type |-> type]

\* The descriptors a schema refers to
SchemaOf(h, schema) == [i \in 1..Len(schema) |-> h[schema[i]]]

\* What a client sees of the registry: names, and for each its columns, rows
\* and source file
View(ts, h) ==
  [nm \in DOMAIN ts |->
     [schema |-> SchemaOf(h, ts[nm].schema), rows |-> ts[nm].rows,
      originalFile |-> ts[nm].originalFile]]

\* table.schema.find(col => col.name === name): position of the first, or 0
Find(h, schema, name) ==
  IF \E i \in 1..Len(schema) : h[schema[i]].name = name
  THEN CHOOSE i \in 1..Len(schema) :
         /\ h[schema[i]].name = name
         /\ \A j \in 1..(i - 1) : h[schema[j]].name # name
  ELSE 0

\* row[key] (undefined when the key is missing), row[key] = value, delete
Get(row, key) == IF key \in DOMAIN row THEN row[key] ELSE Undefined
Put(row, key, value) ==
  [k \in DOMAIN row \cup {key} |-> IF k = key THEN value ELSE row[k]]
Delete(row, keys) == [k \in DOMAIN row \ keys |-> row[k]]

\* The type default of a column
TypeDefault(type) == IF type \in {"INT", "REAL"} THEN Num(0) ELSE Str("")

\* The request served and its response: op, its table t, the tables it reads
\* (from) and the new name n, the
\* outcome (ok, kind of error), and for the row endpoints the request row, the
\* row index, the row as processed, the error set and the stages run (trace)
Response(op, ok, kind, t, n) ==
  [op |-> op, ok |-> ok, kind |-> kind, t |-> t, n |-> n,
   from |-> {t} \ {""}, errors |-> <<>>, trace |-> <<>>, row |-> <<>>,
   request |-> <<>>, rowIndex |-> 0 - 1]


\* ---------------------------------------------------------------- CSV load
ColNames == {"Name", "Amount", "Date", "X", "tag"}
Types == {"TEXT", "INT", "REAL"}

\* parseSchema, for one field of the schema line: name[:type], type TEXT when
\* it is left out
ParseColumn(field) ==
  IF \E c \in ColNames, ty \in Types : field = c \o ":" \o ty
  THEN CHOOSE d \in [name : ColNames, type : Types] : field = d.name \o ":" \o d.type
  ELSE Column(field, "TEXT")
parseSchema(fields) == [i \in 1..Len(fields) |-> ParseColumn(fields[i])]

\* cleanRealValue removes ',' and '$'; the texts of the model hold neither
cleanRealValue(value) == value

\* parseValue(value, type) of a field read from a file
parseValue(value, type) ==
  IF value = "" THEN TypeDefault(type)
  ELSE IF type = "INT"
       THEN (IF parseInt(Str(value)).t = "nan" THEN Num(0) ELSE parseInt(Str(value)))
  ELSE IF type = "REAL"
       THEN (IF parseFloat(Str(cleanRealValue(value))).t = "nan" THEN Num(0)
             ELSE parseFloat(Str(cleanRealValue(value))))
  ELSE Str(value)

\* One data line as a row of the schema: missing fields are '', extra fields
\* are dropped
ParseRow(schema, fields) ==
  [c \in {schema[j].name : j \in 1..Len(schema)} |->
     LET j == CHOOSE j \in 1..Len(schema) :
                /\ schema[j].name = c
                /\ \A k \in (j + 1)..Len(schema) : schema[k].name # c
     IN  parseValue(IF j <= Len(fields) THEN fields[j] ELSE "", schema[j].type)]

CsvFiles == DOMAIN DataDir
FileOrder == <<"log.csv", "sales.CSV">>

\* Position in the heap of the first descriptor of the file, when all files
\* are loaded in directory order on top of heap h
RECURSIVE HeapBase(_, _)
HeapBase(h, k) ==
  IF k = 1 THEN Len(h) ELSE HeapBase(h, k - 1) + Len(DataDir[FileOrder[k - 1]].schema)
RECURSIVE LoadedHeap(_, _)
LoadedHeap(h, k) ==
  IF k > Len(FileOrder) THEN h
  ELSE LoadedHeap(h \o parseSchema(DataDir[FileOrder[k]].schema), k + 1)

LoadedTable(h, k) ==
  LET file == FileOrder[k]
      schema == parseSchema(DataDir[file].schema)
  IN  [schema |-> [j \in 1..Len(schema) |-> HeapBase(h, k) + j],
       rows |-> [i \in 1..Len(DataDir[file].lines) |-> ParseRow(schema, DataDir[file].lines[i])],
       originalFile |-> file]

\* inMemoryTables: the tables fs.access finds no file for (the file names of
\* the data directory are compared letter by letter, upper and lower case apart)
InMemoryTables(ts) == {nm \in DOMAIN ts : ts[nm].originalFile \notin CsvFiles}

\* loadCSVFiles(resetTables): tables without a file on disk are kept unless
\* resetTables; every file is parsed into a table named after the file
loadCSVFiles(ts, h, resetTables) ==
  LET kept == IF resetTables THEN {} ELSE InMemoryTables(ts)
      loaded == {StripCsv(FileOrder[k]) : k \in 1..Len(FileOrder)}
  IN  [nm \in kept \cup loaded |->
         IF nm \in loaded
         THEN LoadedTable(h, CHOOSE k \in 1..Len(FileOrder) : StripCsv(FileOrder[k]) = nm)
         ELSE ts[nm]]

\* GET /api/tables
GetTables ==
  /\ steps < MaxSteps
  /\ tables' = loadCSVFiles(tables, heap, FALSE)
  /\ heap' = LoadedHeap(heap, 1)
  /\ last' = [Response("GET_TABLES", TRUE, "", "", "") EXCEPT !.from = InMemoryTables(tables)]
  /\ steps' = steps + 1
  /\ UNCHANGED pending

\* POST /api/restart
Restart ==
  /\ steps < MaxSteps
  /\ tables' = loadCSVFiles(<<>>, heap, TRUE)
  /\ heap' = LoadedHeap(heap, 1)
  /\ last' = Response("RESTART", TRUE, "", "", "")
  /\ steps' = steps + 1
  /\ UNCHANGED pending


\* ------------------------------------------------------- POST /api/command
\* A request is served: the registry and the heap become ts and h
Serve(resp, ts, h) ==
  /\ steps < MaxSteps
  /\ tables' = ts
  /\ heap' = h
  /\ last' = resp
  /\ steps' = steps + 1
  /\ UNCHANGED pending

\* { success: false, error } with the registry untouched
Fail(op, kind, t, n) == Serve(Response(op, FALSE, kind, t, n), tables, heap)

Names(h, schema) == {h[schema[i]].name : i \in 1..Len(schema)}

\* A drop that removes the listed columns it finds and then reports the ones
\* it did not find: the behaviour C20 excludes
DropColumnsAsFound(tableName, columns) ==
  LET op == "DROP_COLUMNS" IN
  IF tableName \notin DOMAIN tables THEN Fail(op, "notfound", tableName, "")
  ELSE IF columns = <<>> THEN Fail(op, "required", tableName, "")
  ELSE LET table == tables[tableName]
           columnsToRemove == {columns[i] : i \in 1..Len(columns)}
           missing == \E c \in columnsToRemove : c \notin Names(heap, table.schema)
       IN  Serve([Response(op, ~missing, IF missing THEN "colnotfound" ELSE "", tableName, "")
                    EXCEPT !.request = columns],
                 [tables EXCEPT
                    ![tableName].schema =
                       SelectSeq(@, LAMBDA id : heap[id].name \notin columnsToRemove),
                    ![tableName].rows =
                       [i \in 1..Len(@) |-> Delete(@[i], columnsToRemove)]],
                 heap)

\* dropColumns(tableName, columns)
DropColumns(tableName, columns) ==
  LET op == "DROP_COLUMNS" IN
  IF tableName \notin DOMAIN tables THEN Fail(op, "notfound", tableName, "")
  ELSE IF columns = <<>> THEN Fail(op, "required", tableName, "")
  ELSE LET table == tables[tableName]
           columnsToRemove == {columns[i] : i \in 1..Len(columns)}
       IN  IF \E c \in columnsToRemove : c \notin Names(heap, table.schema)
           THEN Serve([Response(op, FALSE, "colnotfound", tableName, "")
                         EXCEPT !.request = columns],
                      tables, heap)
           ELSE Serve([Response(op, TRUE, "", tableName, "") EXCEPT !.request = columns],
                      [tables EXCEPT
                         ![tableName].schema =
                            SelectSeq(@, LAMBDA id : heap[id].name \notin columnsToRemove),
                         ![tableName].rows =
                            [i \in 1..Len(@) |-> Delete(@[i], columnsToRemove)]],
                      heap)

\* What a command function leaves: its answer, the registry and the heap
Outcome(resp, ts, h) == [resp |-> resp, ts |-> ts, h |-> h]

\* renameTable(tableName, newName) on the registry ts
renameTable(ts, h, tableName, newName) ==
  LET op == "RENAME_TABLE" IN
  IF tableName \notin DOMAIN ts
  THEN Outcome(Response(op, FALSE, "notfound", tableName, newName), ts, h)
  ELSE IF newName \in DOMAIN ts
  THEN Outcome(Response(op, FALSE, "exists", tableName, newName), ts, h)
  ELSE Outcome(Response(op, TRUE, "", tableName, newName),
               [nm \in (DOMAIN ts \ {tableName}) \cup {newName} |->
                  IF nm = newName
                  THEN [ts[tableName] EXCEPT !.originalFile = newName \o ".CSV"]
                  ELSE ts[nm]],
               h)

\* RENAME_TABLE served in one piece
RenameTable(tableName, newName) ==
  LET Answer(r) == Serve(r.resp, r.ts, r.h)
  IN  Answer(renameTable(tables, heap, tableName, newName))

\* deleteRow: parseFloat of the result without a leading or trailing quote
DeleteRowNumber(r) ==
  IF r.toks # <<>> /\ r.toks[1].k = "dq" THEN LeadingNumber(r.toks[1].s)
  ELSE ParseFloatToks(r.toks)

\* deleteRow(tableName, expression): a row stays when the expression is 0 on
\* it, is no number, or fails
DeleteRowKeeps(row, expression) ==
  LET Keeps(r, n) == ~r.ok \/ n.t = "nan" \/ n = Num(0)
      Result(r) == Keeps(r, DeleteRowNumber(r))
  IN  Result(evaluate(expression, Ctx(row)))

DeleteRows(tableName, expression) ==
  LET op == "DELETE_ROWS" IN
  IF tableName \notin DOMAIN tables THEN Fail(op, "notfound", tableName, "")
  ELSE Serve([Response(op, TRUE, "", tableName, "") EXCEPT !.request = expression],
             [tables EXCEPT ![tableName].rows =
                SelectSeq(@, LAMBDA row : DeleteRowKeeps(row, expression))],
             heap)

\* a + b of JavaScript: the sum of two numbers, else the concatenation
Plus(a, b) ==
  IF a.t = "num" /\ b.t = "num" THEN Num(a.n + b.n) ELSE Str(String(a) \o String(b))

\* The groups built so far are a sequence of [key, row], in insertion order
GroupIndex(groups, key) ==
  IF \E i \in 1..Len(groups) : groups[i].key = key
  THEN CHOOSE i \in 1..Len(groups) : groups[i].key = key
  ELSE 0

\* groups[key][col] = (groups[key][col] || 0) + (row[col] || 0) for each col
RECURSIVE AddSums(_, _, _, _)
AddSums(acc, row, cols, i) ==
  IF i > Len(cols) THEN acc
  ELSE AddSums(Put(acc, cols[i],
                   Plus(OrElse(Get(acc, cols[i]), Num(0)), OrElse(Get(row, cols[i]), Num(0)))),
               row, cols, i + 1)

RECURSIVE GroupRows(_, _, _, _, _)
GroupRows(groups, rows, i, columnName, cols) ==
  IF i > Len(rows) THEN groups
  ELSE LET row == rows[i]
           key == IF columnName # "" THEN String(OrElse(Get(row, columnName), Str("")))
                  ELSE "__all__"
           at == GroupIndex(groups, key)
           colSet == {cols[j] : j \in 1..Len(cols)}
           fresh == [c \in (IF columnName # "" THEN {columnName} ELSE {}) \cup colSet |->
                       IF c \in colSet THEN Num(0) ELSE Get(row, columnName)]
           group == AddSums(IF at = 0 THEN fresh ELSE groups[at].row, row, cols, 1)
       IN  GroupRows(IF at = 0 THEN Append(groups, [key |-> key, row |-> group])
                     ELSE [groups EXCEPT ![at].row = group],
                     rows, i + 1, columnName, cols)

\* collapseTable(tableName, columnName, newTableName): the new schema holds the
\* descriptor objects of the source schema
CollapseTable(tableName, columnName, newTableName) ==
  LET op == "COLLAPSE_TABLE" IN
  IF newTableName = "" THEN Fail(op, "required", tableName, newTableName)
  ELSE IF tableName \notin DOMAIN tables THEN Fail(op, "notfound", tableName, newTableName)
  ELSE IF newTableName \in DOMAIN tables THEN Fail(op, "exists", tableName, newTableName)
  ELSE LET table == tables[tableName]
           groupCol == Find(heap, table.schema, columnName)
       IN  IF columnName # "" /\ groupCol = 0
           THEN Fail(op, "colnotfound", tableName, newTableName)
           ELSE IF columnName # "" /\ heap[table.schema[groupCol]].type # "TEXT"
           THEN Fail(op, "type", tableName, newTableName)
           ELSE LET intRealCols == SelectSeq(table.schema,
                                             LAMBDA id : heap[id].type \in {"INT", "REAL"})
                    colNames == [j \in 1..Len(intRealCols) |-> heap[intRealCols[j]].name]
                    groups == GroupRows(<<>>, table.rows, 1, columnName, colNames)
                    newSchema == IF columnName # "" THEN <<table.schema[groupCol]>> \o intRealCols
                                 ELSE intRealCols
                IN  Serve([Response(op, TRUE, "", tableName, newTableName)
                             EXCEPT !.request = <<columnName, colNames>>],
                          [nm \in DOMAIN tables \cup {newTableName} |->
                             IF nm = newTableName
                             THEN [schema |-> newSchema,
                                   rows |-> [i \in 1..Len(groups) |-> groups[i].row],
                                   originalFile |-> newTableName \o ".CSV"]
                             ELSE tables[nm]],
                          heap)


\* addColumn: the descriptor is pushed first, then the rows are filled one by
\* one; an expression that throws ends the loop where it is
RECURSIVE AddColumnRows(_, _, _, _)
AddColumnRows(rows, i, columnName, expression) ==
  LET Filled(r) ==
        IF ~r.ok THEN [ok |-> FALSE, rows |-> rows]
        ELSE AddColumnRows([rows EXCEPT ![i] = Put(@, columnName, r.value)],
                           i + 1, columnName, expression)
  IN  IF i > Len(rows) THEN [ok |-> TRUE, rows |-> rows]
      ELSE Filled(evaluate(expression, Ctx(rows[i])))

\* addColumn(tableName, columnName, expression, columnType)
AddColumn(tableName, columnName, expression, columnType) ==
  LET op == "ADD_COLUMN"
      Answer(filled) ==
        Serve(Response(op, filled.ok, IF filled.ok THEN "" ELSE "throw", tableName, ""),
              [tables EXCEPT ![tableName].schema = Append(@, Len(heap) + 1),
                             ![tableName].rows = filled.rows],
              Append(heap, Column(columnName, columnType)))
  IN
  IF columnType = "" THEN Fail(op, "required", tableName, "")
  ELSE IF tableName \notin DOMAIN tables THEN Fail(op, "notfound", tableName, "")
  ELSE IF columnType \notin Types THEN Fail(op, "type", tableName, "")
  ELSE Answer(AddColumnRows(tables[tableName].rows, 1, columnName, expression))

\* JSON.parse(JSON.stringify(row)): keys holding undefined are left out
JsonRow(row) == [k \in {c \in DOMAIN row : row[c].t # "undef"} |-> row[k]]
JsonRows(rows) == [i \in 1..Len(rows) |-> JsonRow(rows[i])]

\* const lookup = {}: a plain object, on which lookup[key] also finds the
\* members every object inherits. Of the texts of the model "constructor" is
\* such a key; the member found is the function Object, with its own
\* properties name and length.
InheritedKeys == {"constructor"}
InheritedMember == [name |-> Str("Object"), length |-> Num(1)]

\* The first row of rows whose joinColumn has the key
JoinMatch(rows, joinColumn, key) ==
  IF \E i \in 1..Len(rows) : String(OrElse(Get(rows[i], joinColumn), Str(""))) = key
  THEN CHOOSE i \in 1..Len(rows) :
         /\ String(OrElse(Get(rows[i], joinColumn), Str(""))) = key
         /\ \A j \in 1..(i - 1) : String(OrElse(Get(rows[j], joinColumn), Str(""))) # key
  ELSE 0

\* row[col.name] = ... for each column of newCols in turn
RECURSIVE JoinFill(_, _, _, _, _)
JoinFill(row, newCols, i, match, found) ==
  IF i > Len(newCols) THEN row
  ELSE JoinFill(Put(row, newCols[i].name,
                    IF found THEN Get(match, newCols[i].name)
                    ELSE TypeDefault(newCols[i].type)),
                newCols, i + 1, match, found)

\* The columns of newCols pushed on the copied schema: those whose name is not
\* there yet
RECURSIVE JoinSchema(_, _, _)
JoinSchema(schema, newCols, i) ==
  IF i > Len(newCols) THEN schema
  ELSE JoinSchema(IF \E j \in 1..Len(schema) : schema[j].name = newCols[i].name
                  THEN schema ELSE Append(schema, newCols[i]),
                  newCols, i + 1)

\* joinTable(tableName, tableName1, joinColumn, newTableName)
JoinTable(tableName, tableName1, joinColumn, newTableName) ==
  LET op == "JOIN_TABLE"
      Resp(ok, kind) == [Response(op, ok, kind, tableName, newTableName)
                           EXCEPT !.from = {tableName, tableName1},
                                  !.request = <<tableName1, joinColumn>>]
      Failed(kind) == Serve(Resp(FALSE, kind), tables, heap)
  IN
  IF newTableName = "" THEN Failed("required")
  ELSE IF tableName \notin DOMAIN tables \/ tableName1 \notin DOMAIN tables
  THEN Failed("notfound")
  ELSE IF newTableName \in DOMAIN tables THEN Failed("exists")
  ELSE LET table == tables[tableName]
           table1 == tables[tableName1]
       IN  IF Find(heap, table.schema, joinColumn) = 0 \/ Find(heap, table1.schema, joinColumn) = 0
           THEN Failed("colnotfound")
           ELSE LET newCols == SelectSeq(SchemaOf(heap, table1.schema),
                                         LAMBDA col : col.name # joinColumn)
                    schema == JoinSchema(SchemaOf(heap, table.schema), newCols, 1)
                    copied == JsonRows(table.rows)
                    rows == [i \in 1..Len(copied) |->
                               LET key == String(OrElse(Get(copied[i], joinColumn), Str("")))
                                   at == JoinMatch(table1.rows, joinColumn, key)
                               IN  IF key \in InheritedKeys
                                   THEN JoinFill(copied[i], newCols, 1, InheritedMember, TRUE)
                                   ELSE JoinFill(copied[i], newCols, 1,
                                                 IF at = 0 THEN <<>> ELSE table1.rows[at],
                                                 at # 0)]
                IN  Serve(Resp(TRUE, ""),
                          [nm \in DOMAIN tables \cup {newTableName} |->
                             IF nm = newTableName
                             THEN [schema |-> [j \in 1..Len(schema) |-> Len(heap) + j],
                                   rows |-> rows,
                                   originalFile |-> newTableName \o ".CSV"]
                             ELSE tables[nm]],
                          heap \o schema)

\* A copyTable that does not look whether newName is taken and overwrites the
\* table of that name: the behaviour C4 excludes
CopyTableOverwriting(tableName, newName) ==
  LET op == "COPY_TABLE" IN
  IF tableName = "" \/ newName = "" THEN Fail(op, "required", tableName, newName)
  ELSE IF tableName \notin DOMAIN tables THEN Fail(op, "notfound", tableName, newName)
  ELSE LET table == tables[tableName] IN
         Serve(Response(op, TRUE, "", tableName, newName),
               [nm \in DOMAIN tables \cup {newName} |->
                  IF nm = newName
                  THEN [schema |-> [j \in 1..Len(table.schema) |-> Len(heap) + j],
                        rows |-> JsonRows(table.rows),
                        originalFile |-> newName \o ".CSV"]
                  ELSE tables[nm]],
               heap \o SchemaOf(heap, table.schema))

\* A copy that takes the source table out of the registry: the behaviour C16
\* excludes
copyTableMoving(ts, h, tableName, newName) ==
  IF tableName \in DOMAIN ts /\ newName # "" /\ newName \notin DOMAIN ts
  THEN Outcome(Response("COPY_TABLE", TRUE, "", tableName, newName),
               [nm \in (DOMAIN ts \ {tableName}) \cup {newName} |->
                  IF nm = newName
                  THEN [ts[tableName] EXCEPT !.originalFile = newName \o ".CSV"]
                  ELSE ts[nm]],
               h)
  ELSE Outcome(Response("COPY_TABLE", FALSE, "notfound", tableName, newName), ts, h)

\* copyTable(tableName, newName) from its checks on, on the registry ts:
\* schema and rows are deep copies
copyTable(ts, h, tableName, newName) ==
  LET op == "COPY_TABLE" IN
  IF tableName = "" \/ newName = ""
  THEN Outcome(Response(op, FALSE, "required", tableName, newName), ts, h)
  ELSE IF tableName \notin DOMAIN ts
  THEN Outcome(Response(op, FALSE, "notfound", tableName, newName), ts, h)
  ELSE IF newName \in DOMAIN ts
  THEN Outcome(Response(op, FALSE, "exists", tableName, newName), ts, h)
  ELSE Outcome(Response(op, TRUE, "", tableName, newName),
               [nm \in DOMAIN ts \cup {newName} |->
                  IF nm = newName
                  THEN [schema |-> [j \in 1..Len(ts[tableName].schema) |-> Len(h) + j],
                        rows |-> JsonRows(ts[tableName].rows),
                        originalFile |-> newName \o ".CSV"]
                  ELSE ts[nm]],
               h \o SchemaOf(h, ts[tableName].schema))

\* COPY_TABLE served in one piece
CopyTable(tableName, newName) ==
  LET Answer(r) == Serve(r.resp, r.ts, r.h)
  IN  Answer(copyTable(tables, heap, tableName, newName))

\* deleteTable(tableName) on the registry ts
deleteTable(ts, h, tableName) ==
  LET op == "DELETE_TABLE" IN
  IF tableName \notin DOMAIN ts
  THEN Outcome(Response(op, FALSE, "notfound", tableName, ""), ts, h)
  ELSE Outcome(Response(op, TRUE, "", tableName, ""),
               [nm \in DOMAIN ts \ {tableName} |-> ts[nm]], h)

\* DELETE_TABLE served in one piece
DeleteTable(tableName) ==
  LET Answer(r) == Serve(r.resp, r.ts, r.h)
  IN  Answer(deleteTable(tables, heap, tableName))


\* Number(value) for the subtraction of the sort comparator
ToNumber(v) ==
  IF v.t = "str"
  THEN (IF v.s = "" THEN Num(0)
        ELSE IF \E n \in NumRange : v.s = ToString(n) THEN LeadingNumber(v.s) ELSE NaN)
  ELSE IF v.t = "undef" THEN NaN ELSE v

\* The comparator of sortTable: negative, zero or positive; a NaN difference
\* orders like zero
SortCompare(a, b, columnName, type, order) ==
  LET aVal == Get(a, columnName)
      bVal == Get(b, columnName)
      x == ToNumber(OrElse(aVal, Num(0)))
      y == ToNumber(OrElse(bVal, Num(0)))
      comparison ==
        IF type = "TEXT"
        THEN (IF StrLess(String(aVal), String(bVal)) THEN 0 - 1
              ELSE IF StrLess(String(bVal), String(aVal)) THEN 1 ELSE 0)
        ELSE IF x.t = "num" /\ y.t = "num" THEN x.n - y.n ELSE 0
  IN  IF order = "desc" THEN 0 - comparison ELSE comparison

\* An insertion that puts a row in front of the rows it compares equal to: the
\* sort C19 excludes
RECURSIVE SortInsertBeforeEqual(_, _, _, _, _)
SortInsertBeforeEqual(sorted, row, columnName, type, order) ==
  IF sorted = <<>> THEN <<row>>
  ELSE IF SortCompare(sorted[Len(sorted)], row, columnName, type, order) < 0
       THEN Append(sorted, row)
       ELSE Append(SortInsertBeforeEqual(SubSeq(sorted, 1, Len(sorted) - 1), row,
                                         columnName, type, order),
                   sorted[Len(sorted)])

\* A stable sort: each row goes behind the rows that do not compare greater
RECURSIVE SortInsert(_, _, _, _, _)
SortInsert(sorted, row, columnName, type, order) ==
  IF sorted = <<>> THEN <<row>>
  ELSE IF SortCompare(sorted[Len(sorted)], row, columnName, type, order) <= 0
       THEN Append(sorted, row)
       ELSE Append(SortInsert(SubSeq(sorted, 1, Len(sorted) - 1), row, columnName, type, order),
                   sorted[Len(sorted)])
RECURSIVE SortRows(_, _, _, _, _)
SortRows(rows, n, columnName, type, order) ==
  IF n = 0 THEN <<>>
  ELSE SortInsert(SortRows(rows, n - 1, columnName, type, order), rows[n],
                  columnName, type, order)

\* sortTable(tableName, columnName, order)
SortTable(tableName, columnName, order) ==
  LET op == "SORT_TABLE" IN
  IF tableName \notin DOMAIN tables THEN Fail(op, "notfound", tableName, "")
  ELSE LET table == tables[tableName]
           col == Find(heap, table.schema, columnName)
       IN  IF col = 0 THEN Fail(op, "colnotfound", tableName, "")
           ELSE Serve([Response(op, TRUE, "", tableName, columnName)
                         EXCEPT !.request = <<order>>],
                      [tables EXCEPT ![tableName].rows =
                         SortRows(@, Len(@), columnName, heap[table.schema[col]].type, order)],
                      heap)

\* groupTable(tableName, groupColumn, columns, newTableName): the new schema
\* holds the descriptor objects of the source schema
GroupTable(tableName, groupColumn, columns, newTableName) ==
  LET op == "GROUP_TABLE" IN
  IF newTableName = "" THEN Fail(op, "required", tableName, newTableName)
  ELSE IF tableName \notin DOMAIN tables THEN Fail(op, "notfound", tableName, newTableName)
  ELSE IF newTableName \in DOMAIN tables THEN Fail(op, "exists", tableName, newTableName)
  ELSE IF groupColumn = "" \/ columns = <<>> THEN Fail(op, "required", tableName, newTableName)
  ELSE LET table == tables[tableName]
           groupCol == Find(heap, table.schema, groupColumn)
           sumCols == [j \in 1..Len(columns) |-> Find(heap, table.schema, columns[j])]
           bad == {j \in 1..Len(columns) :
                     \/ sumCols[j] = 0
                     \/ heap[table.schema[sumCols[j]]].type \notin {"INT", "REAL"}}
           firstBad == CHOOSE j \in bad : \A k \in bad : j <= k
       IN  IF groupCol = 0 THEN Fail(op, "colnotfound", tableName, newTableName)
           ELSE IF bad # {}
           THEN Fail(op, IF sumCols[firstBad] = 0 THEN "colnotfound" ELSE "type",
                     tableName, newTableName)
           ELSE LET groups == GroupRows(<<>>, table.rows, 1, groupColumn, columns) IN
                  Serve([Response(op, TRUE, "", tableName, newTableName)
                           EXCEPT !.request = <<groupColumn, columns>>],
                        [nm \in DOMAIN tables \cup {newTableName} |->
                           IF nm = newTableName
                           THEN [schema |-> <<table.schema[groupCol]>> \o
                                            [j \in 1..Len(columns) |-> table.schema[sumCols[j]]],
                                 rows |-> [i \in 1..Len(groups) |-> groups[i].row],
                                 originalFile |-> newTableName \o ".CSV"]
                           ELSE tables[nm]],
                        heap)

\* reorderColumns(tableName, columns): the listed columns, one entry for each
\* time a column is listed, then the columns not listed
ReorderColumns(tableName, columns) ==
  LET op == "REORDER_COLUMNS" IN
  IF tableName \notin DOMAIN tables THEN Fail(op, "notfound", tableName, "")
  ELSE IF columns = <<>> THEN Fail(op, "required", tableName, "")
  ELSE LET table == tables[tableName]
           reorderCols == [j \in 1..Len(columns) |-> Find(heap, table.schema, columns[j])]
           reorderColNames == {columns[j] : j \in 1..Len(columns)}
       IN  IF \E j \in 1..Len(columns) : reorderCols[j] = 0
           THEN Serve([Response(op, FALSE, "colnotfound", tableName, "")
                         EXCEPT !.request = columns],
                      tables, heap)
           ELSE Serve([Response(op, TRUE, "", tableName, "") EXCEPT !.request = columns],
                      [tables EXCEPT ![tableName].schema =
                         [j \in 1..Len(columns) |-> table.schema[reorderCols[j]]] \o
                         SelectSeq(table.schema, LAMBDA id : heap[id].name \notin reorderColNames)],
                      heap)

\* !isNaN(cleaned) for a non-empty text: the whole text is a number
IsNumeric(s) == \E n \in NumRange, tl \in {"", ".0"} : s = ToString(n) \o tl

\* The cell of convertColumn: the number the text is, or the cell as it was
ConvertCell(row, columnName) ==
  LET value == String(OrElse(Get(row, columnName), Str(""))) IN
    IF value # "" /\ IsNumeric(value) THEN Put(row, columnName, parseFloat(Str(value)))
    ELSE row

\* convertColumn(tableName, columnName): the type is written into the
\* descriptor object
ConvertColumn(tableName, columnName) ==
  LET op == "CONVERT_COLUMN" IN
  IF tableName \notin DOMAIN tables THEN Fail(op, "notfound", tableName, "")
  ELSE LET table == tables[tableName]
           col == Find(heap, table.schema, columnName)
       IN  IF col = 0 THEN Fail(op, "colnotfound", tableName, "")
           ELSE IF heap[table.schema[col]].type # "TEXT" THEN Fail(op, "type", tableName, "")
           ELSE Serve(Response(op, TRUE, "", tableName, ""),
                      [tables EXCEPT ![tableName].rows =
                         [i \in 1..Len(@) |-> ConvertCell(@[i], columnName)]],
                      [heap EXCEPT ![table.schema[col]].type = "REAL"])


\* A comparison of schemas that looks at the names only
SchemasMatchByName(schema1, schema2) ==
  /\ Len(schema1) = Len(schema2)
  /\ \A i \in 1..Len(schema1) : schema1[i].name = schema2[i].name

\* schemasMatch of spliceTables: the same names and types, position by position
SchemasMatch(schema1, schema2) ==
  /\ Len(schema1) = Len(schema2)
  /\ \A i \in 1..Len(schema1) :
       schema1[i].name = schema2[i].name /\ schema1[i].type = schema2[i].type

\* A merge that takes the listed tables from the last to the first
RECURSIVE MergedRowsLastFirst(_, _, _)
MergedRowsLastFirst(ts, selectedTables, i) ==
  IF i > Len(selectedTables) THEN <<>>
  ELSE MergedRowsLastFirst(ts, selectedTables, i + 1) \o JsonRows(ts[selectedTables[i]].rows)

\* for (const tableName of selectedTables) mergedRows.push(...deep copies)
RECURSIVE MergedRows(_, _, _)
MergedRows(ts, selectedTables, i) ==
  IF i > Len(selectedTables) THEN <<>>
  ELSE JsonRows(ts[selectedTables[i]].rows) \o MergedRows(ts, selectedTables, i + 1)

\* spliceTables(newTableName, selectedTables)
SpliceTables(newTableName, selectedTables) ==
  LET op == "SPLICE_TABLES"
      Resp(ok, kind) == [Response(op, ok, kind, "", newTableName)
                           EXCEPT !.from = {selectedTables[i] : i \in 1..Len(selectedTables)},
                                  !.request = selectedTables]
      Failed(kind) == Serve(Resp(FALSE, kind), tables, heap)
  IN
  IF newTableName = "" \/ selectedTables = <<>> THEN Failed("required")
  ELSE IF newTableName \in DOMAIN tables THEN Failed("exists")
  ELSE IF \E i \in 1..Len(selectedTables) : selectedTables[i] \notin DOMAIN tables
  THEN Failed("notfound")
  ELSE LET firstSchema == SchemaOf(heap, tables[selectedTables[1]].schema) IN
         IF \E i \in 2..Len(selectedTables) :
              ~SchemasMatch(firstSchema, SchemaOf(heap, tables[selectedTables[i]].schema))
         THEN Failed("mismatch")
         ELSE Serve(Resp(TRUE, ""),
                    [nm \in DOMAIN tables \cup {newTableName} |->
                       IF nm = newTableName
                       THEN [schema |-> [j \in 1..Len(firstSchema) |-> Len(heap) + j],
                             rows |-> MergedRows(tables, selectedTables, 1),
                             originalFile |-> newTableName \o ".CSV"]
                       ELSE tables[nm]],
                    heap \o firstSchema)

\* value.replace(new RegExp(regex, 'g'), replacement) for a regex that is a
\* plain word: of the texts of the model only the word itself contains it
ReplaceWords == {"a"}
ReplaceInText(value, regex, replacement) == IF value = regex THEN replacement ELSE value

\* replaceText(tableName, columnName, regex, replacement)
ReplaceText(tableName, columnName, regex, replacement) ==
  LET op == "REPLACE_TEXT" IN
  IF tableName \notin DOMAIN tables THEN Fail(op, "notfound", tableName, "")
  ELSE LET table == tables[tableName]
           col == Find(heap, table.schema, columnName)
       IN  IF col = 0 \/ heap[table.schema[col]].type # "TEXT"
           THEN Fail(op, "colnotfound", tableName, "")
           ELSE Serve(Response(op, TRUE, "", tableName, ""),
                      [tables EXCEPT ![tableName].rows =
                         [i \in 1..Len(@) |->
                            Put(@[i], columnName,
                                Str(ReplaceInText(String(OrElse(Get(@[i], columnName), Str(""))),
                                                  regex, replacement)))]],
                      heap)


\* ------------------------------------------------------------ row endpoints
Stage(stage, columnName, ok, value) ==
  [stage |-> stage, columnName |-> columnName, ok |-> ok, value |-> value]

\* A row under way through the pipeline, with the errors and stages so far
Ingress(row, errors, trace) == [row |-> row, errors |-> errors, trace |-> trace]

\* "Initialize row with default values if not provided"
RECURSIVE FillDefaults(_, _, _)
FillDefaults(row, schema, i) ==
  IF i > Len(schema) THEN row
  ELSE FillDefaults(IF Get(row, schema[i].name).t = "undef"
                    THEN Put(row, schema[i].name, TypeDefault(schema[i].type)) ELSE row,
                    schema, i + 1)

\* "Validate types": each column of the schema in turn
RECURSIVE ValidateTypes(_, _, _)
ValidateTypes(in, schema, i) ==
  IF i > Len(schema) THEN in
  ELSE LET col == schema[i]
           value == Get(in.row, col.name)
           number == IF col.type = "INT" THEN parseInt(value) ELSE parseFloat(value)
       IN  ValidateTypes(
             IF col.type \in {"INT", "REAL"}
             THEN (IF number.t = "nan" \/ (col.type = "INT" /\ ~IsInteger(parseFloat(value)))
                   THEN Ingress(in.row, Append(in.errors, col.name), in.trace)
                   ELSE Ingress(Put(in.row, col.name, number), in.errors, in.trace))
             ELSE Ingress(Put(in.row, col.name, Str(String(OrElse(value, Str(""))))),
                          in.errors, in.trace),
             schema, i + 1)

\* "Run FIXUP rules": the result is stored as the evaluator returns it
RECURSIVE RunFixups(_, _, _)
RunFixups(in, rules, i) ==
  LET Fixed(rule, r) ==
        IF rule.operation # "FIXUP" THEN in
        ELSE IF r.ok
        THEN Ingress(Put(in.row, rule.columnName, r.value), in.errors,
                     Append(in.trace, Stage("FIXUP", rule.columnName, TRUE, r.value)))
        ELSE Ingress(in.row, Append(in.errors, rule.columnName),
                     Append(in.trace, Stage("FIXUP", rule.columnName, FALSE, Undefined)))
  IN  IF i > Len(rules) THEN in
      ELSE RunFixups(Fixed(rules[i], evaluate(rules[i].expression, Ctx(in.row))), rules, i + 1)

\* !result || result === 0
CheckFails(result) == Falsy(result) \/ result = Num(0)

\* CHECK rules that stop at the first rule that fails: the behaviour C11
\* excludes
RECURSIVE RunChecksUntilFailure(_, _, _)
RunChecksUntilFailure(in, rules, i) ==
  LET Checked(rule, r) ==
        IF rule.operation # "CHECK" THEN RunChecksUntilFailure(in, rules, i + 1)
        ELSE IF ~r.ok \/ CheckFails(r.value)
        THEN Ingress(in.row, Append(in.errors, rule.columnName),
                     Append(in.trace, Stage("CHECK", rule.columnName, r.ok, r.value)))
        ELSE RunChecksUntilFailure(
               Ingress(in.row, in.errors,
                       Append(in.trace, Stage("CHECK", rule.columnName, r.ok, r.value))),
               rules, i + 1)
  IN  IF i > Len(rules) THEN in
      ELSE Checked(rules[i], evaluate(rules[i].expression, Ctx(in.row)))

\* "Run CHECK rules"
RECURSIVE RunChecks(_, _, _)
RunChecks(in, rules, i) ==
  LET Checked(rule, r) ==
        IF rule.operation # "CHECK" THEN in
        ELSE Ingress(in.row,
                     IF ~r.ok \/ CheckFails(r.value)
                     THEN Append(in.errors, rule.columnName) ELSE in.errors,
                     Append(in.trace, Stage("CHECK", rule.columnName, r.ok, r.value)))
  IN  IF i > Len(rules) THEN in
      ELSE RunChecks(Checked(rules[i], evaluate(rules[i].expression, Ctx(in.row))), rules, i + 1)

\* Type validation, and when it leaves no error the FIXUP and the CHECK rules
Validate(row, schema, rules) ==
  LET Rules(typed) ==
        IF typed.errors # <<>> THEN typed
        ELSE RunChecks(RunFixups(typed, rules, 1), rules, 1)
  IN  Rules(ValidateTypes(Ingress(row, <<>>, <<Stage("TYPES", "", TRUE, Undefined)>>),
                          schema, 1))

RowResponse(op, t, in, request, rowIndex) ==
  [Response(op, in.errors = <<>>, IF in.errors = <<>> THEN "" ELSE "validation", t, "")
     EXCEPT !.errors = in.errors, !.trace = in.trace, !.row = in.row,
            !.request = request, !.rowIndex = rowIndex]

\* "Run INIT rules": a rule that throws is skipped
RECURSIVE RunInits(_, _, _)
RunInits(row, rules, i) ==
  LET Initialised(rule, r) ==
        IF rule.operation = "INIT" /\ r.ok THEN Put(row, rule.columnName, r.value)
        ELSE row
  IN  IF i > Len(rules) THEN row
      ELSE RunInits(Initialised(rules[i], evaluate(rules[i].expression, Ctx(row))), rules, i + 1)

\* The row GET /api/row/init answers with: the type defaults, then the INIT
\* rules of the table's rule file
InitRow(table) ==
  RunInits(FillDefaults(<<>>, SchemaOf(heap, table.schema), 1),
           loadRules(StripCsv(table.originalFile)), 1)

\* GET /api/row/init/:tableName
RowInit(tableName) ==
  LET op == "ROW_INIT" IN
  IF tableName \notin DOMAIN tables THEN Fail(op, "notfound", tableName, "")
  ELSE Serve([Response(op, TRUE, "", tableName, "") EXCEPT !.row = InitRow(tables[tableName])],
             tables, heap)

\* A row add that pushes the row whatever the error set holds: the behaviour
\* C7 excludes
RowAddCommitting(tableName, row) ==
  LET op == "ROW_ADD"
      Commit(in) ==
        Serve(RowResponse(op, tableName, in, row, 0 - 1),
              [tables EXCEPT ![tableName].rows = Append(@, in.row)],
              heap)
      Ingest(table, schema) ==
        Commit(Validate(FillDefaults(row, schema, 1), schema,
                        loadRules(StripCsv(table.originalFile))))
  IN
  IF tableName \notin DOMAIN tables
  THEN Serve([Response(op, FALSE, "notfound", tableName, "") EXCEPT !.request = row],
             tables, heap)
  ELSE Ingest(tables[tableName], SchemaOf(heap, tables[tableName].schema))

\* POST /api/row/add
RowAdd(tableName, row) ==
  LET op == "ROW_ADD"
      Commit(in) ==
        Serve(RowResponse(op, tableName, in, row, 0 - 1),
              IF in.errors # <<>> THEN tables
              ELSE [tables EXCEPT ![tableName].rows = Append(@, in.row)],
              heap)
      Ingest(table, schema) ==
        Commit(Validate(FillDefaults(row, schema, 1), schema,
                        loadRules(StripCsv(table.originalFile))))
  IN
  IF tableName \notin DOMAIN tables
  THEN Serve([Response(op, FALSE, "notfound", tableName, "") EXCEPT !.request = row],
             tables, heap)
  ELSE Ingest(tables[tableName], SchemaOf(heap, tables[tableName].schema))

\* POST /api/row/update
RowUpdate(tableName, rowIndex, row) ==
  LET op == "ROW_UPDATE"
      Commit(in) ==
        Serve(RowResponse(op, tableName, in, row, rowIndex),
              IF in.errors # <<>> THEN tables
              ELSE [tables EXCEPT ![tableName].rows[rowIndex + 1] = in.row],
              heap)
      Ingest(table) ==
        Commit(Validate(row, SchemaOf(heap, table.schema),
                        loadRules(BasenameUpper(table.originalFile))))
  IN
  IF tableName \notin DOMAIN tables
  THEN Serve([Response(op, FALSE, "notfound", tableName, "")
                EXCEPT !.request = row, !.rowIndex = rowIndex], tables, heap)
  ELSE IF rowIndex < 0 \/ rowIndex >= Len(tables[tableName].rows)
  THEN Serve([Response(op, FALSE, "index", tableName, "")
                EXCEPT !.request = row, !.rowIndex = rowIndex], tables, heap)
  ELSE Ingest(tables[tableName])

\* POST /api/row/delete
RowDelete(tableName, rowIndex) ==
  LET op == "ROW_DELETE" IN
  IF tableName \notin DOMAIN tables THEN Fail(op, "notfound", tableName, "")
  ELSE IF rowIndex < 0 \/ rowIndex >= Len(tables[tableName].rows)
  THEN Fail(op, "index", tableName, "")
  ELSE Serve([Response(op, TRUE, "", tableName, "") EXCEPT !.rowIndex = rowIndex],
             [tables EXCEPT ![tableName].rows =
                SubSeq(@, 1, rowIndex) \o SubSeq(@, rowIndex + 2, Len(@))],
             heap)

\* POST /api/row/tag: a TEXT column "tag" is added when the table has none
RowTag(tableName, rowIndex, tag) ==
  LET op == "ROW_TAG" IN
  IF tableName \notin DOMAIN tables THEN Fail(op, "notfound", tableName, "")
  ELSE IF rowIndex < 0 \/ rowIndex >= Len(tables[tableName].rows)
  THEN Fail(op, "index", tableName, "")
  ELSE LET table == tables[tableName]
           hasTag == Find(heap, table.schema, "tag") # 0
           rows == IF hasTag THEN table.rows
                   ELSE [i \in 1..Len(table.rows) |-> Put(table.rows[i], "tag", Str(""))]
       IN  Serve([Response(op, TRUE, "", tableName, "") EXCEPT !.rowIndex = rowIndex],
                 [tables EXCEPT
                    ![tableName].schema = IF hasTag THEN @ ELSE Append(@, Len(heap) + 1),
                    ![tableName].rows =
                       [rows EXCEPT ![rowIndex + 1] = Put(@, "tag", Str(tag))]],
                 IF hasTag THEN heap ELSE Append(heap, Column("tag", "TEXT")))


\* ----------------------------------------------------------------- requests
\* The arguments the requests of the model are drawn from
TableArgs == {"sales", "log", "t2"}
NewNames == {"t2", "log"}
ExprNamePositive == <<TId("Name"), TWs, TOp(">"), TWs, TNum(0)>>
DropArgs == {<<"Date">>, <<"Name", "X">>}
Expr0 == <<TNum(0)>>
Expr1 == <<TNum(1)>>
Expr5abc == <<TSq("5abc")>>
DeleteArgs == {Expr0, Expr1, ExprAmountPositive, ExprNameIsA, ExprName, Expr5abc}
CollapseArgs == {"", "Name", "Amount"}
AddColumnArgs ==
  {<<"X", ExprAmountPlusOne, "INT">>, <<"X", ExprNamePositive, "INT">>,
   <<"X", ExprFixed, "TEXT">>, <<"Amount", ExprFixed, "TEXT">>, <<"X", ExprFixed, "">>}
SortArgs == {"Amount", "Name"}
GroupArgs == {<<"Name", <<"Amount">>>>, <<"Amount", <<"Amount">>>>, <<"Name", <<"Name">>>>}
ReorderArgs == {<<"Amount">>, <<"Amount", "Amount">>, <<"X">>}
ConvertArgs == {"Name", "Date", "Amount"}
SpliceArgs == {<<"sales">>, <<"sales", "log">>, <<"sales", "t2">>}
RowIndexes == {0, 2}
RequestRows ==
  {[Amount |-> Num(5)],
   [Name |-> Str("a"), Amount |-> Num(0 - 5), Date |-> Str("")],
   [Name |-> Str(""), Amount |-> Str("5"), Date |-> Str("x"), X |-> Str("")],
   [Name |-> Str("b"), Amount |-> Str("abc"), Date |-> Str("")],
   [Name |-> Str("a"), Amount |-> Num(0), X |-> Str("x")],
   [Name |-> Str("b"), Amount |-> Str("5abc")]}

Init ==
  /\ tables = <<>>
  /\ heap = <<>>
  /\ last = Response("START", TRUE, "", "", "")
  /\ steps = 0
  /\ pending = <<>>

Next ==
  \/ GetTables
  \/ Restart
  \/ \E t \in TableArgs, columns \in DropArgs : DropColumns(StripCsv(t), columns)
  \/ \E t \in TableArgs, n \in NewNames : RenameTable(StripCsv(t), StripCsv(n))
  \/ \E t \in TableArgs, e \in DeleteArgs : DeleteRows(StripCsv(t), e)
  \/ \E t \in TableArgs, c \in CollapseArgs, n \in NewNames \cup {""} :
       CollapseTable(StripCsv(t), c, StripCsv(n))
  \/ \E t \in TableArgs, w \in ReplaceWords : ReplaceText(StripCsv(t), "Name", w, "b")
  \/ \E t \in TableArgs, a \in AddColumnArgs : AddColumn(StripCsv(t), a[1], a[2], a[3])
  \/ \E t \in TableArgs, n \in NewNames : JoinTable(StripCsv(t), StripCsv("log"), "Name", StripCsv(n))
  \/ \E t \in TableArgs, n \in NewNames : CopyTable(StripCsv(t), StripCsv(n))
  \/ \E t \in TableArgs, c \in SortArgs, order \in {"asc", "desc"} : SortTable(StripCsv(t), c, order)
  \/ \E t \in TableArgs : DeleteTable(StripCsv(t))
  \/ \E t \in TableArgs, g \in GroupArgs, n \in NewNames :
       GroupTable(StripCsv(t), g[1], g[2], StripCsv(n))
  \/ \E t \in TableArgs, columns \in ReorderArgs : ReorderColumns(StripCsv(t), columns)
  \/ \E t \in TableArgs, c \in ConvertArgs : ConvertColumn(StripCsv(t), c)
  \/ \E n \in NewNames, sel \in SpliceArgs : SpliceTables(StripCsv(n), sel)
  \/ \E t \in TableArgs : RowInit(t)
  \/ \E t \in TableArgs, row \in RequestRows : RowAdd(t, row)
  \/ \E t \in TableArgs, i \in RowIndexes, row \in RequestRows : RowUpdate(t, i, row)
  \/ \E t \in TableArgs, i \in RowIndexes : RowDelete(t, i)
  \/ \E t \in TableArgs, i \in RowIndexes : RowTag(t, i, "x")

Spec == Init /\ [][Next]_vars

\* The server after its first GET /api/tables, and from there the requests that
\* add, rename, remove and reload tables
LoadedInit ==
  /\ tables = loadCSVFiles(<<>>, <<>>, FALSE)
  /\ heap = LoadedHeap(<<>>, 1)
  /\ last = Response("GET_TABLES", TRUE, "", "", "")
  /\ steps = 0
  /\ pending = <<>>

ReloadNext ==
  \/ GetTables
  \/ Restart
  \/ \E t \in TableArgs, n \in NewNames : RenameTable(StripCsv(t), StripCsv(n))
  \/ \E t \in TableArgs, n \in NewNames : CopyTable(StripCsv(t), StripCsv(n))
  \/ \E t \in TableArgs : DeleteTable(StripCsv(t))
  \/ \E t \in TableArgs, i \in RowIndexes : RowDelete(t, i)

ReloadSpec == LoadedInit /\ [][ReloadNext]_vars

\* ------------------------------------------------- requests that overlap
\* A handler runs until its next await and goes on when the awaited file
\* operation (fs.appendFile of the log, fs.access, fs.readdir, fs.readFile)
\* has completed; the operations of different requests complete in any order.
MaxCalls == 2

\* The requests that arrive while others are under way
Calls ==
  {[op |-> "GET_TABLES", t |-> "", n |-> ""],
   [op |-> "COPY_TABLE", t |-> "sales", n |-> "t2"],
   [op |-> "DELETE_TABLE", t |-> "sales", n |-> ""],
   [op |-> "DELETE_TABLE", t |-> "log", n |-> ""]}

\* A request under way: where its handler is suspended (pc), for a load the
\* entries of the registry it is going through (entries, todo), its
\* inMemoryTables (kept) and the file it is at (file); applied is the place of
\* its answer among the answers given so far, 0 before, and ok its success
Call(call) ==
  [call |-> call, pc |-> "log", entries |-> <<>>, todo |-> {}, kept |-> {},
   file |-> 0, applied |-> 0, ok |-> FALSE]

\* The request arrives: the handler runs up to its first await, the logAction
\* of the command or of the load
Arrive(call) ==
  /\ Len(pending) < MaxCalls
  /\ pending' = Append(pending, Call(call))
  /\ UNCHANGED <<tables, heap, last, steps>>

\* The handler of request k goes on to its next await without a look at the
\* registry
Resume(k, to) ==
  /\ pending' = [pending EXCEPT ![k].pc = to]
  /\ UNCHANGED <<tables, heap, last, steps>>

\* The command function of request k has run: its outcome r
Apply(k, r) ==
  /\ tables' = r.ts
  /\ heap' = r.h
  /\ last' = r.resp
  /\ steps' = steps + 1
  /\ pending' = [pending EXCEPT ![k].pc = "done", ![k].applied = steps + 1,
                                ![k].ok = r.resp.ok]

\* POST /api/command with COPY_TABLE: after the command's log line the line
\* 'COPY_TABLE: copying from' is awaited
CopyLogged(k) ==
  /\ k \in 1..Len(pending)
  /\ pending[k].pc = "log" /\ pending[k].call.op = "COPY_TABLE"
  /\ Resume(k, "copying")

\* copyTable is entered: it awaits the log line 'Looking for source table'
CopyLookup(k) ==
  /\ k \in 1..Len(pending)
  /\ pending[k].pc = "copying" /\ pending[k].call.op = "COPY_TABLE"
  /\ Resume(k, "lookup")

\* copyTable goes on: its checks and the new registry entry
CopyApply(k) ==
  /\ k \in 1..Len(pending)
  /\ pending[k].pc = "lookup" /\ pending[k].call.op = "COPY_TABLE"
  /\ Apply(k, copyTable(tables, heap, pending[k].call.t, pending[k].call.n))

\* POST /api/command with DELETE_TABLE: deleteTable runs after the command's
\* log line
DeleteApply(k) ==
  /\ k \in 1..Len(pending)
  /\ pending[k].pc = "log" /\ pending[k].call.op = "DELETE_TABLE"
  /\ Apply(k, deleteTable(tables, heap, pending[k].call.t))

\* `tables = inMemoryTables` once the last entry has been looked at
Rebound(entries, kept) == [nm \in kept |-> entries[nm]]

\* loadCSVFiles after its first log line: Object.entries(tables) is taken, and
\* fs.access of the first entry is awaited; with no entry the registry is
\* replaced at once and fs.readdir is awaited
LoadEntries(k) ==
  /\ k \in 1..Len(pending)
  /\ pending[k].pc = "log" /\ pending[k].call.op = "GET_TABLES"
  /\ pending' = [pending EXCEPT ![k].pc = IF DOMAIN tables = {} THEN "readdir" ELSE "access",
                                ![k].entries = tables, ![k].todo = DOMAIN tables]
  /\ tables' = IF DOMAIN tables = {} THEN Rebound(tables, {}) ELSE tables
  /\ UNCHANGED <<heap, last, steps>>

\* fs.access of one entry has completed: the entry is kept when its file does
\* not exist; after the last entry the registry is replaced by the kept
\* tables and fs.readdir is awaited
LoadAccess(k) ==
  /\ k \in 1..Len(pending)
  /\ pending[k].pc = "access" /\ pending[k].call.op = "GET_TABLES"
  /\ LET nm == CHOOSE x \in pending[k].todo : TRUE
          kept == pending[k].kept \cup (InMemoryTables(pending[k].entries) \cap {nm})
          todo == pending[k].todo \ {nm}
     IN  /\ pending' = [pending EXCEPT ![k].kept = kept, ![k].todo = todo,
                                       ![k].pc = IF todo = {} THEN "readdir" ELSE "access"]
         /\ tables' = IF todo = {} THEN Rebound(pending[k].entries, kept) ELSE tables
  /\ UNCHANGED <<heap, last, steps>>

\* fs.readdir has completed: fs.readFile of the first file is awaited
LoadReaddir(k) ==
  /\ k \in 1..Len(pending)
  /\ pending[k].pc = "readdir" /\ pending[k].call.op = "GET_TABLES"
  /\ pending' = [pending EXCEPT ![k].pc = "read", ![k].file = 1]
  /\ UNCHANGED <<tables, heap, last, steps>>

\* fs.readFile has completed: the file is parsed, tables[tableName] is
\* assigned and the log line 'Loaded table' is awaited
LoadFile(k) ==
  /\ k \in 1..Len(pending)
  /\ pending[k].pc = "read" /\ pending[k].call.op = "GET_TABLES"
  /\ LET file == FileOrder[pending[k].file]
          schema == parseSchema(DataDir[file].schema)
     IN  /\ tables' =
              [nm \in DOMAIN tables \cup {StripCsv(file)} |->
                 IF nm = StripCsv(file)
                 THEN [schema |-> [j \in 1..Len(schema) |-> Len(heap) + j],
                       rows |-> [i \in 1..Len(DataDir[file].lines) |->
                                   ParseRow(schema, DataDir[file].lines[i])],
                       originalFile |-> file]
                 ELSE tables[nm]]
         /\ heap' = heap \o schema
  /\ pending' = [pending EXCEPT ![k].pc = "loaded"]
  /\ UNCHANGED <<last, steps>>

\* The log line has been written: the next file is read, or loadCSVFiles
\* returns and GET /api/tables answers with the registry as it is
LoadLogged(k) ==
  /\ k \in 1..Len(pending)
  /\ pending[k].pc = "loaded" /\ pending[k].call.op = "GET_TABLES"
  /\ IF pending[k].file < Len(FileOrder)
     THEN /\ pending' = [pending EXCEPT ![k].pc = "read", ![k].file = @ + 1]
          /\ UNCHANGED <<tables, heap, last, steps>>
     ELSE Apply(k, Outcome(Response("GET_TABLES", TRUE, "", "", ""), tables, heap))

OverlapNext ==
  \/ \E call \in Calls : Arrive(call)
  \/ \E k \in 1..MaxCalls : CopyLogged(k)
  \/ \E k \in 1..MaxCalls : CopyLookup(k)
  \/ \E k \in 1..MaxCalls : CopyApply(k)
  \/ \E k \in 1..MaxCalls : DeleteApply(k)
  \/ \E k \in 1..MaxCalls : LoadEntries(k)
  \/ \E k \in 1..MaxCalls : LoadAccess(k)
  \/ \E k \in 1..MaxCalls : LoadReaddir(k)
  \/ \E k \in 1..MaxCalls : LoadFile(k)
  \/ \E k \in 1..MaxCalls : LoadLogged(k)

OverlapSpec == LoadedInit /\ [][OverlapNext]_vars

\* ------------------------------------------- tables made from other tables
\* The server after its first GET /api/tables, and from there the commands that
\* make a table out of loaded ones (copy, splice, join) next to the requests
\* that make two tables of one origin differ (a row added, a column converted)
DerivedNames == {"t2", "t3"}
DerivedTables == {"sales", "log", "t2"}
DerivedRows ==
  {[Name |-> Str("a"), Amount |-> Num(7), Date |-> Str("y")],
   [Name |-> Str("constructor"), Amount |-> Num(0), Date |-> Str("x")]}
DerivedSplices ==
  {<<"sales">>, <<"sales", "t2">>, <<"t2", "sales">>, <<"sales", "log">>, <<"sales", "t3">>}
JoinColumns == {"Name", "Amount"}

\* The commands the switch of POST /api/command has a case for
SwitchCommands ==
  {"SAVE_TABLE", "DROP_COLUMNS", "RENAME_TABLE", "DELETE_ROWS", "COLLAPSE_TABLE",
   "REPLACE_TEXT", "ADD_COLUMN", "JOIN_TABLE", "COPY_TABLE", "SORT_TABLE",
   "DELETE_TABLE", "GROUP_TABLE", "REORDER_COLUMNS", "CONVERT_COLUMN", "SPLICE_TABLES"}

\* default: throw new Error(`Unknown command: ${command}`), which the handler
\* answers with status 500 and { success: false }; the registry is not touched
OtherCommand(command, tableName, params) ==
  /\ command \notin SwitchCommands
  /\ Serve([Response(command, FALSE, "unknown", tableName, "") EXCEPT !.request = params],
           tables, heap)

\* Requests for the commands of the client's list: RENAME_COLUMN with old and
\* new, SET_VALUE with columnName and expression
ColumnRequests ==
  {<<"RENAME_COLUMN", <<"Name", "N2">>>>, <<"RENAME_COLUMN", <<"X", "N2">>>>,
   <<"RENAME_COLUMN", <<"Name", "Amount">>>>, <<"SET_VALUE", <<"Amount", Expr1>>>>,
   <<"REORDER_COLUMNS", <<>>>>}

DerivedNext ==
  \/ \E c \in ColumnRequests : OtherCommand(c[1], StripCsv("sales"), c[2])
  \/ \E t \in {"sales", "log"}, n \in DerivedNames : CopyTable(StripCsv(t), StripCsv(n))
  \/ \E t \in DerivedTables, row \in DerivedRows : RowAdd(t, row)
  \/ \E t \in DerivedTables, c \in {"Name", "Date"} : ConvertColumn(StripCsv(t), c)
  \/ \E n \in DerivedNames, sel \in DerivedSplices : SpliceTables(StripCsv(n), sel)
  \/ \E l \in {"sales", "log"}, r \in {"sales", "log"}, c \in JoinColumns, n \in DerivedNames :
       JoinTable(StripCsv(l), StripCsv(r), c, StripCsv(n))

DerivedSpec == LoadedInit /\ [][DerivedNext]_vars

\* ------------------------------------------------ the expression evaluator
\* ExpressionEvaluator.evaluate as a function of the expression text alone:
\* an expression over numbers and texts, evaluated on a row without cells.
\* The state holds the expression (last.request) and, once evaluated, the
\* result (last.ok, last.row.value).
Operands == 0..2
Quintuples == [1..5 -> Operands]
Quadruples == [1..4 -> Operands]

Question == <<TWs, TOp("?"), TWs>>
Colon == <<TWs, TOp(":"), TWs>>
Parens(e) == <<TOp("(")>> \o e \o <<TOp(")")>>
Operand(n) == <<TNum(n)>>

\* condition ? trueValue : falseValue
CondExpr(a, b, c) == a \o Question \o b \o Colon \o c

\* a ? b ? c : d : e and a ? (b ? c : d) : e
NestedInTrue(v) ==
  Operand(v[1]) \o Question \o CondExpr(Operand(v[2]), Operand(v[3]), Operand(v[4]))
    \o Colon \o Operand(v[5])
GroupedInTrue(v) ==
  CondExpr(Operand(v[1]), Parens(CondExpr(Operand(v[2]), Operand(v[3]), Operand(v[4]))),
           Operand(v[5]))

\* a ? b : c ? d : e and a ? b : (c ? d : e)
NestedInFalse(v) ==
  CondExpr(Operand(v[1]), Operand(v[2]), CondExpr(Operand(v[3]), Operand(v[4]), Operand(v[5])))
GroupedInFalse(v) ==
  CondExpr(Operand(v[1]), Operand(v[2]),
           Parens(CondExpr(Operand(v[3]), Operand(v[4]), Operand(v[5]))))

\* The expressions put in the place of a and b in 0 ? a : b and 1 ? a : b
Branches ==
  {Operand(2),
   <<TNum(1), TWs, TOp("+"), TWs, TNum(2)>>,
   <<TNum(2), TWs, TOp("<"), TWs, TNum(1)>>,
   <<TSq("x")>>,
   Parens(CondExpr(Operand(1), Operand(0), Operand(2))),
   CondExpr(Operand(1), Operand(0), Operand(2))}

\* x < y && z < w and x > y || z > w
Both(v) ==
  <<TNum(v[1]), TWs, TOp("<"), TWs, TNum(v[2]), TWs, TOp("&&"), TWs,
    TNum(v[3]), TWs, TOp("<"), TWs, TNum(v[4])>>
Either(v) ==
  <<TNum(v[1]), TWs, TOp(">"), TWs, TNum(v[2]), TWs, TOp("||"), TWs,
    TNum(v[3]), TWs, TOp(">"), TWs, TNum(v[4])>>

\* a - b + c, a + b + c and a / b * c; the operands of the last are such
\* that every quotient is a whole number
Triples == [1..3 -> Operands]
Binary(a, op, b) == a \o <<TWs, TOp(op), TWs>> \o b
Chain(v, op1, op2) == Binary(Binary(Operand(v[1]), op1, Operand(v[2])), op2, Operand(v[3]))
Quotients == {<<a, b, c>> : a \in {4, 8}, b \in {1, 2}, c \in {1, 2}}

\* The row an expression of RowExpressions is evaluated on
EvalRow == [Name |-> Str("b"), Amount |-> Num(5)]

\* (x op y) for the four comparisons: x and y are single-quoted literals,
\* numbers, the TEXT cell Name or the number cell Amount
Texts == {<<TSq("a")>>, <<TSq("b")>>, <<TSq("5")>>, <<TSq("12")>>, <<TId("Name")>>}
Numbers == {<<TNum(2)>>, <<TNum(5)>>, <<TNum(12)>>, <<TId("Amount")>>}
Comparators == {"=", "!=", "<", ">"}
Comparison(x, op, y) == Parens(Binary(x, op, y))
Comparisons ==
  {Comparison(x, op, y) : x \in Texts \cup Numbers, op \in Comparators, y \in Texts \cup Numbers}

\* F(x) and F(x, y)
FuncCall(name, args) == <<TId(name), TOp("(")>> \o args \o <<TOp(")")>>
FuncCall2(name, x, y) == FuncCall(name, x \o <<TOp(","), TWs>> \o y)

\* BLANK of a literal in double or single quotes, of a number and of a cell,
\* on a row with an empty text and a zero and on a row without
Literals == {"", "x", "Name"}
BlankArgs ==
  {<<TDq(s)>> : s \in Literals} \cup {<<TSq(s)>> : s \in Literals}
    \cup {<<TNum(0)>>, <<TNum(5)>>, <<TId("Name")>>, <<TId("Amount")>>}
BlankCalls == {FuncCall("BLANK", x) : x \in BlankArgs}
BlankRows == {[Name |-> Str(""), Amount |-> Num(0)], [Name |-> Str("x"), Amount |-> Num(5)]}

\* TOTAL(table, col) for a table and a column named bare or in quotes, on no
\* row and on the first row of sales
TotalTables == {<<TId("sales")>>, <<TDq("sales")>>, <<TId("t2")>>}
TotalColumns == {<<TId("Amount")>>, <<TDq("Amount")>>, <<TSq("Amount")>>, <<TId("X")>>}
TotalCalls == {FuncCall2("TOTAL", t, c) : t \in TotalTables, c \in TotalColumns}
TotalRows == {<<>>, [Name |-> Str("a"), Amount |-> Num(5), Date |-> Str("")]}

\* A literal in single quotes, on no row and on a row with the cells Name
\* and Amount
Contents == {"x", "Name", "Amount"}
QuotedLiterals == {<<TSq(s)>> : s \in Contents}

\* The expressions evaluated on a row, with their rows
RowExpressions ==
  {<<e, EvalRow>> : e \in Comparisons} \cup (BlankCalls \X BlankRows)
    \cup (TotalCalls \X TotalRows) \cup (QuotedLiterals \X {<<>>, EvalRow})

Expressions ==
  {NestedInTrue(v) : v \in Quintuples} \cup {GroupedInTrue(v) : v \in Quintuples}
    \cup {NestedInFalse(v) : v \in Quintuples} \cup {GroupedInFalse(v) : v \in Quintuples}
    \cup {CondExpr(Operand(k), a, b) : k \in {0, 1}, a \in Branches, b \in Branches}
    \cup Branches
    \cup {Both(v) : v \in Quadruples} \cup {Either(v) : v \in Quadruples}
    \cup {Chain(v, "-", "+") : v \in Triples} \cup {Chain(v, "+", "+") : v \in Triples}
    \cup {Chain(v, "/", "*") : v \in Quotients}

EvalInit ==
  /\ tables = loadCSVFiles(<<>>, <<>>, FALSE)
  /\ heap = LoadedHeap(<<>>, 1)
  /\ last \in {[Response("EXPRESSION", TRUE, "", "", "") EXCEPT !.request = e] :
                 e \in Expressions}
             \cup {[Response("EXPRESSION", TRUE, "", "", "")
                      EXCEPT !.request = x[1], !.row = x[2]] : x \in RowExpressions}
  /\ steps = 0
  /\ pending = <<>>

\* The row the expression of last is evaluated on
EvalContext == IF last.op = "EXPRESSION" THEN last.row ELSE last.row.row

\* An evaluation that stores its result in the registry, as the commands
\* that fill a column do
EvaluateAndStore ==
  /\ steps < MaxSteps
  /\ LET r == evaluate(last.request, CtxOf(EvalContext, tables, heap))
     IN  /\ last' = [last EXCEPT !.op = "EVALUATE", !.ok = r.ok,
                                 !.row = [value |-> r.value, row |-> EvalContext]]
         /\ tables' = [tables EXCEPT !["sales"].rows[1].Name = r.value]
  /\ steps' = steps + 1
  /\ UNCHANGED <<heap, pending>>

\* new ExpressionEvaluator(row, tables, ...).evaluate(expression), once and
\* again
Evaluate ==
  /\ steps < MaxSteps
  /\ LET r == evaluate(last.request, CtxOf(EvalContext, tables, heap))
     IN  last' = [last EXCEPT !.op = "EVALUATE", !.ok = r.ok,
                              !.row = [value |-> r.value, row |-> EvalContext]]
  /\ steps' = steps + 1
  /\ UNCHANGED <<tables, heap, pending>>

EvalNext == Evaluate

EvalSpec == EvalInit /\ [][EvalNext]_vars


\* ------------------------------------- SAVE_TABLE and the load of its file
\* A text is held as a string; the texts that hold a character the CSV code
\* looks at are those of CellTexts, and Atoms gives their characters.  Any
\* other text (a numeral, a name:type pair) holds no such character and is
\* one atom.
Quote == "\""
Comma == ","
Space == " "
Newline == "\n"
Alphabet == {"a", Space, Comma, Quote, Newline}
MaxText == 2

RECURSIVE JoinAtoms(_)
JoinAtoms(cs) == IF Len(cs) = 0 THEN "" ELSE cs[1] \o JoinAtoms(SubSeq(cs, 2, Len(cs)))
AtomSeqs == UNION {[1..n -> Alphabet] : n \in 0..MaxText}
CellTexts == {JoinAtoms(cs) : cs \in AtomSeqs}
Atoms(s) ==
  IF s \in CellTexts THEN CHOOSE cs \in AtomSeqs : JoinAtoms(cs) = s ELSE <<s>>

\* str.replace(/"/g, '""')
RECURSIVE DoubleQuotes(_)
DoubleQuotes(cs) ==
  IF Len(cs) = 0 THEN <<>>
  ELSE (IF cs[1] = Quote THEN <<Quote, Quote>> ELSE <<cs[1]>>)
         \o DoubleQuotes(SubSeq(cs, 2, Len(cs)))

escapeCSVField(value) ==
  IF value.t = "undef" THEN <<>>
  ELSE IF \E i \in 1..Len(Atoms(String(value))) :
            Atoms(String(value))[i] \in {Comma, Quote, Newline}
       THEN <<Quote>> \o DoubleQuotes(Atoms(String(value))) \o <<Quote>>
       ELSE Atoms(String(value))

\* value.toFixed(1) of a whole number
ToFixed1(n) == ToString(n) \o ".0"

\* The value saveTable writes for a cell
SavedValue(row, col) ==
  LET value == Get(row, col.name) IN
    IF col.type = "REAL"
    THEN (IF value.t = "num" THEN Str(ToFixed1(value.n))
          ELSE IF value.t = "str" /\ parseFloat(value).t = "num"
               THEN Str(ToFixed1(parseFloat(value).n))
          ELSE value)
    ELSE IF value.t = "undef" THEN Str("") ELSE value

\* parts.join(sep)
RECURSIVE JoinWith(_, _)
JoinWith(parts, sep) ==
  IF Len(parts) = 0 THEN <<>>
  ELSE IF Len(parts) = 1 THEN parts[1]
  ELSE parts[1] \o <<sep>> \o JoinWith(SubSeq(parts, 2, Len(parts)), sep)

\* The content saveTable writes: the schema line and one line for each row
SavedText(schema, rows) ==
  LET schemaLine == JoinWith([j \in 1..Len(schema) |->
                                <<schema[j].name \o ":" \o schema[j].type>>], Comma)
      line == [i \in 1..Len(rows) |->
                 JoinWith([j \in 1..Len(schema) |->
                             escapeCSVField(SavedValue(rows[i], schema[j]))], Comma)]
  IN  JoinWith(<<schemaLine>> \o line, Newline)

\* content.split(/\r?\n/)
RECURSIVE SplitLines(_, _, _)
SplitLines(text, i, current) ==
  IF i > Len(text) THEN <<current>>
  ELSE IF text[i] = Newline THEN <<current>> \o SplitLines(text, i + 1, <<>>)
  ELSE SplitLines(text, i + 1, Append(current, text[i]))

\* trim() of a piece of a line
RECURSIVE TrimAtoms(_)
TrimAtoms(cs) ==
  IF Len(cs) = 0 THEN cs
  ELSE IF cs[1] = Space THEN TrimAtoms(SubSeq(cs, 2, Len(cs)))
  ELSE IF cs[Len(cs)] = Space THEN TrimAtoms(SubSeq(cs, 1, Len(cs) - 1))
  ELSE cs

\* .filter(line => line.trim() !== '')
RECURSIVE NonBlank(_)
NonBlank(lines) ==
  IF Len(lines) = 0 THEN <<>>
  ELSE (IF TrimAtoms(lines[1]) = <<>> THEN <<>> ELSE <<lines[1]>>)
         \o NonBlank(SubSeq(lines, 2, Len(lines)))

\* parseCSVLine: a quote opens or closes a quoted stretch and is left out, two
\* quotes inside a quoted stretch are one quote, a comma outside a quoted
\* stretch ends the field, and every field is trimmed
RECURSIVE ScanCSVLine(_, _, _, _)
ScanCSVLine(line, i, inQuotes, current) ==
  IF i > Len(line) THEN <<TrimAtoms(current)>>
  ELSE IF line[i] = Quote
       THEN (IF inQuotes /\ i + 1 <= Len(line) /\ line[i + 1] = Quote
             THEN ScanCSVLine(line, i + 2, inQuotes, Append(current, Quote))
             ELSE ScanCSVLine(line, i + 1, ~inQuotes, current))
  ELSE IF line[i] = Comma /\ ~inQuotes
       THEN <<TrimAtoms(current)>> \o ScanCSVLine(line, i + 1, inQuotes, <<>>)
  ELSE ScanCSVLine(line, i + 1, inQuotes, Append(current, line[i]))

parseCSVLine(line) == ScanCSVLine(line, 1, FALSE, <<>>)

\* value.replace(/""/g, '"')
RECURSIVE SingleQuotes(_)
SingleQuotes(cs) ==
  IF Len(cs) = 0 THEN <<>>
  ELSE IF Len(cs) >= 2 /\ cs[1] = Quote /\ cs[2] = Quote
       THEN <<Quote>> \o SingleQuotes(SubSeq(cs, 3, Len(cs)))
  ELSE <<cs[1]>> \o SingleQuotes(SubSeq(cs, 2, Len(cs)))

\* The field as loadCSVFiles hands it to parseValue: surrounding quotes, if
\* the parsed field still has them, are removed
FieldValue(field) ==
  IF Len(field) >= 1 /\ field[1] = Quote /\ field[Len(field)] = Quote
  THEN JoinAtoms(SingleQuotes(SubSeq(field, 2, Len(field) - 1)))
  ELSE JoinAtoms(field)

FieldValues(line) ==
  [j \in 1..Len(parseCSVLine(line)) |-> FieldValue(parseCSVLine(line)[j])]

\* The table loadCSVFiles makes of a file's content (the content holds a
\* line that is not blank: its schema line)
LoadedFromText(text) ==
  LET lines == NonBlank(SplitLines(text, 1, <<>>))
      schema == parseSchema([j \in 1..Len(parseCSVLine(lines[1])) |->
                               JoinAtoms(parseCSVLine(lines[1])[j])])
  IN  [schema |-> schema,
       rows |-> [i \in 1..(Len(lines) - 1) |-> ParseRow(schema, FieldValues(lines[i + 1]))]]

\* The tables saved: one TEXT column with one row, or with a second row, or
\* with a column of numbers
SavedName == "t2"
SavedNumbers == {0, 5, 0 - 3}
SavedTables ==
  {[schema |-> <<Column("Name", "TEXT")>>, rows |-> <<[Name |-> Str(s)]>>] : s \in CellTexts}
    \cup {[schema |-> <<Column("Name", "TEXT")>>,
           rows |-> <<[Name |-> Str(s)], [Name |-> Str("a")]>>] : s \in CellTexts}
    \cup {[schema |-> <<Column("Name", "TEXT"), Column("Amount", ty)>>,
           rows |-> <<[Name |-> Str(s), Amount |-> Num(n)]>>] :
            s \in CellTexts, ty \in {"INT", "REAL"}, n \in SavedNumbers}

\* The registry holds one table, made by commands, with no file yet
SaveInit ==
  /\ \E t \in SavedTables :
       /\ heap = t.schema
       /\ tables = [nm \in {SavedName} |->
                      [schema |-> [j \in 1..Len(t.schema) |-> j], rows |-> t.rows,
                       originalFile |-> SavedName \o ".CSV"]]
  /\ last = Response("GET_TABLES", TRUE, "", "", "")
  /\ steps = 0
  /\ pending = <<>>

\* SAVE_TABLE: the response keeps the table as it was saved (request) and the
\* content of the file written (trace)
SaveTable(tableName) ==
  /\ steps < MaxSteps
  /\ last.op = "GET_TABLES"
  /\ tableName \in DOMAIN tables
  /\ last' = [Response("SAVE_TABLE", TRUE, "", tableName, "") EXCEPT
                !.request = [schema |-> SchemaOf(heap, tables[tableName].schema),
                             rows |-> tables[tableName].rows],
                !.trace = SavedText(SchemaOf(heap, tables[tableName].schema),
                                    tables[tableName].rows)]
  /\ steps' = steps + 1
  /\ UNCHANGED <<tables, heap, pending>>

\* GET /api/tables after the save: the data directory holds the file written
LoadSaved ==
  /\ steps < MaxSteps
  /\ last.op = "SAVE_TABLE"
  /\ LET loaded == LoadedFromText(last.trace) IN
       /\ heap' = heap \o loaded.schema
       /\ tables' = [nm \in {last.t} |->
                       [schema |-> [j \in 1..Len(loaded.schema) |-> Len(heap) + j],
                        rows |-> loaded.rows,
                        originalFile |-> last.t \o ".CSV"]]
  /\ last' = [last EXCEPT !.op = "GET_TABLES"]
  /\ steps' = steps + 1
  /\ UNCHANGED pending

SaveNext == SaveTable(SavedName) \/ LoadSaved

SaveSpec == SaveInit /\ [][SaveNext]_vars


\* ------------------------------------ commands on a column made by ADD_COLUMN
\* The loaded registry, ADD_COLUMN of a number column X computed from Amount,
\* and then DELETE_ROWS and SORT_TABLE on X
ExprAmountLess(k) == <<TId("Amount"), TWs, TOp("-"), TWs, TNum(k)>>
ExprXAbove(k) == <<TId("X"), TWs, TOp(">"), TWs, TNum(k)>>
ColumnTables == {"sales", "log"}
Decrements == {1, 2}
Thresholds == {3, 4, 10}

ColumnNext ==
  \/ \E t \in ColumnTables, k \in Decrements, ty \in {"INT", "REAL"} :
       AddColumn(t, "X", ExprAmountLess(k), ty)
  \/ \E t \in ColumnTables, k \in Thresholds : DeleteRows(t, ExprXAbove(k))
  \/ \E t \in ColumnTables, order \in {"asc", "desc"} : SortTable(t, "X", order)

ColumnSpec == LoadedInit /\ [][ColumnNext]_vars


\* ------------------------------- a row update overlapped by deletes of rows
\* POST /api/row/update looks the table up and checks the index, then awaits
\* loadRules; what follows the await (the validation and the write) runs in a
\* later turn of the event loop, after whatever handlers ran in between.

\* An empty slot of a JavaScript array: read as a row, it has no column
Hole == <<>>

\* table.rows[rowIndex] = row: an index at or past the length makes the array
\* longer, with empty slots up to the index
WriteAt(rows, rowIndex, row) ==
  IF rowIndex < Len(rows) THEN [rows EXCEPT ![rowIndex + 1] = row]
  ELSE rows \o [k \in 1..(rowIndex - Len(rows)) |-> Hole] \o <<row>>

Update(tableName, rowIndex, row) ==
  [call |-> [op |-> "ROW_UPDATE", t |-> tableName, rowIndex |-> rowIndex, row |-> row]]

\* The first part of the handler: it answers at once when the table is
\* missing or the index is out of range, and otherwise waits for the rule file
UpdateCheck(tableName, rowIndex, row) ==
  /\ pending = <<>>
  /\ IF tableName \notin DOMAIN tables
     THEN Serve([Response("ROW_UPDATE", FALSE, "notfound", tableName, "")
                   EXCEPT !.request = row, !.rowIndex = rowIndex], tables, heap)
     ELSE IF rowIndex < 0 \/ rowIndex >= Len(tables[tableName].rows)
     THEN Serve([Response("ROW_UPDATE", FALSE, "index", tableName, "")
                   EXCEPT !.request = row, !.rowIndex = rowIndex], tables, heap)
     ELSE /\ steps < MaxSteps
          /\ pending' = <<Update(tableName, rowIndex, row)>>
          /\ steps' = steps + 1
          /\ UNCHANGED <<tables, heap, last>>

\* The second part: the rules are there, the row is validated against the
\* schema the table has now and, without an error, written into the rows the
\* table has now
Written(call, in) ==
  /\ tables' = IF in.errors # <<>> THEN tables
               ELSE [tables EXCEPT ![call.t].rows = WriteAt(@, call.rowIndex, in.row)]
  /\ last' = RowResponse(call.op, call.t, in, call.row, call.rowIndex)

Resumed(call, table) ==
  Written(call, Validate(call.row, SchemaOf(heap, table.schema),
                         loadRules(BasenameUpper(table.originalFile))))

UpdateWrite ==
  /\ pending # <<>>
  /\ Resumed(pending[1].call, tables[pending[1].call.t])
  /\ pending' = <<>>
  /\ UNCHANGED <<heap, steps>>

UpdateTables == {"sales", "log"}
UpdateIndexes == {0, 1, 2}
UpdateRows ==
  {[Name |-> Str("c"), Amount |-> Num(7), Date |-> Str("")],
   [Name |-> Str("a"), Amount |-> Num(0 - 5), Date |-> Str("")],
   [Amount |-> Num(5)]}
UpdateDeletes == {Expr1, ExprNameIsA}

UpdateNext ==
  \/ \E t \in UpdateTables, i \in UpdateIndexes, row \in UpdateRows : UpdateCheck(t, i, row)
  \/ UpdateWrite
  \/ \E t \in UpdateTables, i \in UpdateIndexes : RowDelete(t, i)
  \/ \E t \in UpdateTables, e \in UpdateDeletes : DeleteRows(t, e)

UpdateSpec == LoadedInit /\ [][UpdateNext]_vars


\* =============================================================== properties
RowNames(row) == DOMAIN row

\* C1: in every reachable state, for every table of the registry and every
\* row of it, the set of keys of the row equals the set of column names of the
\* table's schema.
C1_RowKeysEqualSchemaNames ==
  \A nm \in DOMAIN tables : \A i \in 1..Len(tables[nm].rows) :
    RowNames(tables[nm].rows[i]) = Names(heap, tables[nm].schema)

\* The state ADD_COLUMN leaves when its expression throws on the first row: the
\* schema has the new column and no row has it
C1_ColumnWithoutCells ==
  /\ last.op = "ADD_COLUMN" /\ ~last.ok /\ last.kind = "throw"
  /\ \E c \in Names(heap, tables[last.t].schema) :
       \A i \in 1..Len(tables[last.t].rows) : c \notin RowNames(tables[last.t].rows[i])

\* The value has the runtime type the column type declares
HasType(value, type) ==
  IF type = "TEXT" THEN value.t = "str" ELSE value.t = "num"

\* C2: in every reachable state every cell of every row has the runtime type
\* declared by its column: TEXT columns hold strings, INT columns integral
\* numbers, REAL columns numbers.
C2_CellsHaveDeclaredType ==
  \A nm \in DOMAIN tables : \A i \in 1..Len(tables[nm].rows) :
    \A j \in 1..Len(tables[nm].schema) :
      LET col == heap[tables[nm].schema[j]] IN
        col.name \in RowNames(tables[nm].rows[i])
          => HasType(tables[nm].rows[i][col.name], col.type)

\* The state after a successful ADD_COLUMN of type INT: the cells of the new
\* column are the strings the evaluator returned
C2_IntColumnOfStrings ==
  /\ last.op = "ADD_COLUMN" /\ last.ok
  /\ \E j \in 1..Len(tables[last.t].schema) :
       /\ heap[tables[last.t].schema[j]].type = "INT"
       /\ \E i \in 1..Len(tables[last.t].rows) :
            /\ heap[tables[last.t].schema[j]].name \in RowNames(tables[last.t].rows[i])
            /\ tables[last.t].rows[i][heap[tables[last.t].schema[j]].name].t = "str"

\* C3: column names stay unique within every table's schema after any
\* sequence of commands: no schema holds one name twice.
C3_ColumnNamesUnique ==
  \A nm \in DOMAIN tables : \A i, j \in 1..Len(tables[nm].schema) :
    i # j => heap[tables[nm].schema[i]].name # heap[tables[nm].schema[j]].name

\* The state after REORDER_COLUMNS with a column listed twice: the schema has
\* the column twice
C3_ReorderedTwice ==
  /\ last.op = "REORDER_COLUMNS" /\ last.ok
  /\ \E i, j \in 1..Len(tables[last.t].schema) :
       i # j /\ heap[tables[last.t].schema[i]].name = heap[tables[last.t].schema[j]].name

\* The commands that create a table under a new name
CreatingOps ==
  {"COPY_TABLE", "RENAME_TABLE", "COLLAPSE_TABLE", "GROUP_TABLE", "JOIN_TABLE", "SPLICE_TABLES"}

\* C4 (as the code has it): for COPY_TABLE, RENAME_TABLE, COLLAPSE_TABLE,
\* GROUP_TABLE, JOIN_TABLE and SPLICE_TABLES, when the requested new name
\* already names a table of the registry the command fails and the registry is
\* unchanged (same names, schemas, rows); the failure is the name-exists error
\* whenever the source table of the command is in the registry (SPLICE_TABLES:
\* always), and the not-found error otherwise.
C4_ExistingNameFailsRegistryUnchanged ==
  [][(last'.op \in CreatingOps /\ last'.n \in DOMAIN tables)
       => /\ ~last'.ok
          /\ View(tables', heap') = View(tables, heap)
          /\ (last'.op = "SPLICE_TABLES" \/ last'.from \subseteq DOMAIN tables)
               => last'.kind = "exists"
          /\ (last'.op # "SPLICE_TABLES" /\ ~(last'.from \subseteq DOMAIN tables))
               => last'.kind = "notfound"]_vars

\* C4 (as stated): for each of the six commands, when the requested new name
\* already names a table the command returns the name-exists failure and the
\* registry is unchanged.
C4_ExistingNameIsNameExistsError ==
  [][(last'.op \in CreatingOps /\ last'.n \in DOMAIN tables)
       => /\ ~last'.ok
          /\ last'.kind = "exists"
          /\ View(tables', heap') = View(tables, heap)]_vars

\* A JOIN_TABLE onto a name in use was refused with the name-exists error
C4_JoinOntoExistingName ==
  /\ last.op = "JOIN_TABLE" /\ ~last.ok /\ last.kind = "exists"
  /\ last.n \in DOMAIN tables /\ last.from \subseteq DOMAIN tables


\* The commands that change one table in place
InPlaceOps ==
  {"CONVERT_COLUMN", "DROP_COLUMNS", "REPLACE_TEXT", "SORT_TABLE", "ADD_COLUMN",
   "DELETE_ROWS", "REORDER_COLUMNS"}

\* C5: no two registry entries share structure: an in-place command on one
\* table (CONVERT_COLUMN, DROP_COLUMNS, REPLACE_TEXT, SORT_TABLE, ...) leaves
\* the schema (names and types) and the rows of every other table unchanged,
\* whether the other table was created from it or it from the other.
C5_InPlaceCommandLeavesOtherTables ==
  [][last'.op \in InPlaceOps
       => \A nm \in DOMAIN tables \ {last'.t} :
            /\ nm \in DOMAIN tables'
            /\ View(tables', heap')[nm] = View(tables, heap)[nm]]_vars

\* The state after COLLAPSE_TABLE or GROUP_TABLE: a descriptor object of the
\* source schema is in the schema of the created table as well
C5_SharedDescriptor ==
  /\ last.op \in {"COLLAPSE_TABLE", "GROUP_TABLE"} /\ last.ok
  /\ \E i \in 1..Len(tables[last.t].schema), j \in 1..Len(tables[last.n].schema) :
       tables[last.t].schema[i] = tables[last.n].schema[j]

\* The commands of POST /api/command
CommandOps ==
  {"DROP_COLUMNS", "RENAME_TABLE", "DELETE_ROWS", "COLLAPSE_TABLE", "REPLACE_TEXT",
   "ADD_COLUMN", "JOIN_TABLE", "COPY_TABLE", "SORT_TABLE", "DELETE_TABLE", "GROUP_TABLE",
   "REORDER_COLUMNS", "CONVERT_COLUMN", "SPLICE_TABLES"}

\* C6: a command is all-or-nothing: whenever a command does not succeed (it
\* returns an error, or its body raises) the registry after the command equals
\* the registry before it, schemas and rows included.
C6_FailedCommandLeavesRegistry ==
  [][(last'.op \in CommandOps /\ ~last'.ok)
       => View(tables', heap') = View(tables, heap)]_vars

\* The state after an ADD_COLUMN whose expression threw on a later row: the
\* rows before it have the new cell
C6_HalfFilledColumn ==
  /\ last.op = "ADD_COLUMN" /\ ~last.ok /\ last.kind = "throw"
  /\ \E i, j \in 1..Len(tables[last.t].rows) :
       RowNames(tables[last.t].rows[i]) # RowNames(tables[last.t].rows[j])

RowOps == {"ROW_ADD", "ROW_UPDATE"}

\* C7: row add and row update commit the row if and only if the error set is
\* empty: with no error the processed row is appended (add) or put at rowIndex
\* (update), and a rejected request leaves the registry as it was.
C7_CommitIffNoErrors ==
  [][last'.op \in RowOps
       => IF last'.ok
          THEN /\ last'.errors = <<>>
               /\ tables'[last'.t].rows =
                    IF last'.op = "ROW_ADD" THEN Append(tables[last'.t].rows, last'.row)
                    ELSE [tables[last'.t].rows EXCEPT ![last'.rowIndex + 1] = last'.row]
               /\ \A nm \in DOMAIN tables \ {last'.t} :
                    View(tables', heap')[nm] = View(tables, heap)[nm]
          ELSE /\ last'.errors # <<>> \/ last'.kind \in {"notfound", "index"}
               /\ View(tables', heap') = View(tables, heap)]_vars

\* A row add was rejected because a CHECK rule failed, after its FIXUP rules
\* had run
C7_RejectedByCheck ==
  /\ last.op = "ROW_ADD" /\ ~last.ok /\ last.errors # <<>>
  /\ \E i \in 1..Len(last.trace) :
       /\ last.trace[i].stage = "CHECK"
       /\ last.trace[i].columnName = last.errors[1]
  /\ \E i \in 1..Len(last.trace) : last.trace[i].stage = "FIXUP"

\* The result of an expression is zero
IsZero(value) == value = Num(0) \/ (value.t = "str" /\ LeadingNumber(value.s) = Num(0))

InErrors(columnName) == \E j \in 1..Len(last.errors) : last.errors[j] = columnName

\* C8: during row add and row update a CHECK rule fails, and its column is put
\* in the error set so that the row is rejected, if and only if its expression
\* evaluates to zero, evaluates to empty text, or raises an evaluation error;
\* so with CHECK Amount Amount > 0 a row with Amount = -5 is rejected.
C8_CheckFailsOnZeroEmptyError ==
  last.op \in RowOps =>
    \A i \in 1..Len(last.trace) :
      (/\ last.trace[i].stage = "CHECK"
       /\ \A k \in 1..Len(last.trace) :
            last.trace[k].stage = "FIXUP" => last.trace[k].ok)
        => (InErrors(last.trace[i].columnName)
              <=> \/ ~last.trace[i].ok
                  \/ last.trace[i].value = Str("")
                  \/ IsZero(last.trace[i].value))

\* A row with a negative Amount was committed past CHECK Amount Amount > 0
C8_NegativeAmountCommitted ==
  /\ last.op = "ROW_ADD" /\ last.ok
  /\ \E i \in 1..Len(last.trace) :
       /\ last.trace[i].stage = "CHECK" /\ last.trace[i].columnName = "Amount"
       /\ last.trace[i].value = Str("0")
  /\ last.row["Amount"] = Num(0 - 5)
  /\ tables[last.t].rows[Len(tables[last.t].rows)] = last.row

\* The stages of a rule file in the order of the pipeline: the type
\* conversion, every FIXUP rule in file order, every CHECK rule in file order
StagesOf(rules) ==
  <<[stage |-> "TYPES", columnName |-> ""]>>
    \o [i \in 1..Len(SelectSeq(rules, LAMBDA r : r.operation = "FIXUP")) |->
          [stage |-> "FIXUP",
           columnName |-> SelectSeq(rules, LAMBDA r : r.operation = "FIXUP")[i].columnName]]
    \o [i \in 1..Len(SelectSeq(rules, LAMBDA r : r.operation = "CHECK")) |->
          [stage |-> "CHECK",
           columnName |-> SelectSeq(rules, LAMBDA r : r.operation = "CHECK")[i].columnName]]

StagesRun(trace) ==
  [i \in 1..Len(trace) |-> [stage |-> trace[i].stage, columnName |-> trace[i].columnName]]

\* The type conversion of the request reported a column
TypeErrors == Len(last.trace) = 1 /\ last.errors # <<>>

\* C9: on the row-add path and on the row-update path, for every table with a
\* rule file (whatever the case of the extension of its source file), a row
\* whose fields convert to the column types goes through every FIXUP rule in
\* file order and then through every CHECK rule in file order before the
\* commit decision.
C9_FixupThenCheckOnAddAndUpdate ==
  (last.op \in RowOps /\ last.kind \notin {"notfound", "index"} /\ ~TypeErrors)
    => StagesRun(last.trace) = StagesOf(loadRules(StripCsv(tables[last.t].originalFile)))

\* A row of a table loaded from a lower-case .csv file was updated and no rule
\* of the table's rule file ran
C9_UpdateWithoutRules ==
  /\ last.op = "ROW_UPDATE" /\ last.ok
  /\ tables[last.t].originalFile = "log.csv"
  /\ loadRules("log") # <<>>
  /\ Len(last.trace) = 1

\* C10: adding a row applies every INIT rule of the table to the type-default
\* row before the user-supplied fields are accepted, so a column set by INIT
\* and not supplied by the user (nor rewritten by a FIXUP rule) holds the INIT
\* value in the committed row; updating a row applies no INIT rule.
C10_AddAppliesInit ==
  /\ (last.op = "ROW_ADD" /\ last.ok)
       => LET rules == loadRules(StripCsv(tables[last.t].originalFile)) IN
            \A i \in 1..Len(rules) :
              (/\ rules[i].operation = "INIT"
               /\ rules[i].columnName \notin RowNames(last.request)
               /\ \A k \in 1..Len(rules) :
                    rules[k].operation = "FIXUP" => rules[k].columnName # rules[i].columnName)
                => /\ rules[i].columnName \in RowNames(last.row)
                   /\ last.row[rules[i].columnName] = InitRow(tables[last.t])[rules[i].columnName]
  /\ last.op = "ROW_UPDATE" => \A i \in 1..Len(last.trace) : last.trace[i].stage # "INIT"

\* A row without Date was added to the table whose rule file has INIT Date
\* TODAY(), and the committed Date is the type default
C10_AddedWithoutInit ==
  /\ last.op = "ROW_ADD" /\ last.ok /\ last.t = "sales"
  /\ "Date" \notin RowNames(last.request)
  /\ tables["sales"].rows[Len(tables["sales"].rows)]["Date"] = Str("")
  /\ InitRow(tables["sales"])["Date"] # Str("")

\* The columns of the stages of a request that failed, in the order they ran
RECURSIVE FailedColumns(_)
FailedColumns(trace) ==
  IF trace = <<>> THEN <<>>
  ELSE (IF \/ (Head(trace).stage = "FIXUP" /\ ~Head(trace).ok)
           \/ (Head(trace).stage = "CHECK"
                 /\ (~Head(trace).ok \/ CheckFails(Head(trace).value)))
        THEN <<Head(trace).columnName>> ELSE <<>>) \o FailedColumns(Tail(trace))

CheckRules(rules) == SelectSeq(rules, LAMBDA r : r.operation = "CHECK")
ChecksRun(trace) == SelectSeq(trace, LAMBDA st : st.stage = "CHECK")

IsIntegerText(v) ==
  \/ v.t = "num"
  \/ v.t = "str" /\ \E n \in NumRange : v.s = ToString(n)

\* The INT columns of the table a row request is about
IntColumns(h, table) ==
  {h[table.schema[i]].name : i \in {j \in 1..Len(table.schema) : h[table.schema[j]].type = "INT"}}

HasFixupStage(trace, columnName) ==
  \E i \in 1..Len(trace) : trace[i].stage = "FIXUP" /\ trace[i].columnName = columnName

\* C12: row add and row update reject any value for an INT column that is not
\* the decimal text of an integer: the column is in the error set and the table
\* is unchanged; an accepted value is stored as an integral number.
C12_IntColumnRejectsNonIntegerText ==
  [][(last'.op \in RowOps /\ last'.kind \notin {"notfound", "index"})
       => \A c \in IntColumns(heap, tables[last'.t]) :
            /\ (HasField(last'.request, c) /\ ~IsIntegerText(last'.request[c]))
                 => /\ \E j \in 1..Len(last'.errors) : last'.errors[j] = c
                    /\ View(tables', heap') = View(tables, heap)
            /\ (last'.ok /\ ~HasFixupStage(last'.trace, c))
                 => /\ last'.row[c].t = "num"
                    /\ IsIntegerText(Get(last'.request, c))
                         \/ (last'.op = "ROW_ADD" /\ ~HasField(last'.request, c))]_vars

\* A row whose INT cell was sent as '5abc' was added, with 5 in the cell
C12_TrailingTextAccepted ==
  /\ last.op = "ROW_ADD" /\ last.ok
  /\ Get(last.request, "Amount") = Str("5abc")
  /\ "Amount" \in IntColumns(heap, tables[last.t])
  /\ last.row["Amount"] = Num(5)
  /\ tables[last.t].rows[Len(tables[last.t].rows)] = last.row

\* What a load reads from the files of the data directory
OnDisk == View(loadCSVFiles(<<>>, <<>>, TRUE), LoadedHeap(<<>>, 1))

\* C13: after a non-reset load every table that was in the registry and whose
\* source file is not on disk is still there with the same schema and rows, and
\* every table whose source file is on disk has the schema and rows parsed
\* from that file.
C13_LoadKeepsInMemoryReloadsFileBacked ==
  [][last'.op = "GET_TABLES"
       => /\ \A nm \in InMemoryTables(tables) :
               /\ nm \in DOMAIN tables'
               /\ View(tables', heap')[nm].schema = View(tables, heap)[nm].schema
               /\ View(tables', heap')[nm].rows = View(tables, heap)[nm].rows
          /\ \A nm \in DOMAIN tables' :
               tables'[nm].originalFile \in CsvFiles
                 => /\ StripCsv(tables'[nm].originalFile) \in DOMAIN OnDisk
                    /\ View(tables', heap')[nm].schema
                         = OnDisk[StripCsv(tables'[nm].originalFile)].schema
                    /\ View(tables', heap')[nm].rows
                         = OnDisk[StripCsv(tables'[nm].originalFile)].rows]_vars

\* A load found no file for the table log (its source file is log.CSV) and
\* kept it, and the registry now holds under that name the table of log.csv
C13_KeptTableOverwrittenByFile ==
  /\ last.op = "GET_TABLES" /\ "log" \in last.from
  /\ "log.CSV" \notin CsvFiles
  /\ tables["log"].originalFile = "log.csv"

\* The load of request p is between its first read of the registry (the
\* entries it goes through) and its last write (the table of the last file)
InWindow(p) ==
  /\ p.call.op = "GET_TABLES"
  /\ \/ p.pc \in {"access", "readdir", "read"}
     \/ p.pc = "loaded" /\ p.file < Len(FileOrder)

\* The next piece of the handler of request p reads or writes the registry
AccessesRegistry(p) ==
  \/ p.call.op = "COPY_TABLE" /\ p.pc = "lookup"
  \/ p.call.op = "DELETE_TABLE" /\ p.pc = "log"
  \/ p.call.op = "GET_TABLES" /\ p.pc \in {"log", "read"}
  \/ p.call.op = "GET_TABLES" /\ p.pc = "access" /\ Cardinality(p.todo) = 1
  \/ p.call.op = "GET_TABLES" /\ p.pc = "loaded" /\ p.file = Len(FileOrder)

\* The request served in one piece on the registry and heap of r
ServedAlone(r, call) ==
  CASE call.op = "COPY_TABLE" -> copyTable(r.ts, r.h, call.t, call.n)
    [] call.op = "DELETE_TABLE" -> deleteTable(r.ts, r.h, call.t)
    [] OTHER -> Outcome(Response("GET_TABLES", TRUE, "", "", ""),
                        loadCSVFiles(r.ts, r.h, FALSE), LoadedHeap(r.h, 1))

RECURSIVE ServedInOrder(_, _, _)
ServedInOrder(r, order, i) ==
  IF i > Len(order) THEN r
  ELSE ServedInOrder(ServedAlone(r, pending[order[i]].call), order, i + 1)

Orders(n) == {f \in [1..n -> 1..n] : \A i, j \in 1..n : f[i] = f[j] => i = j}

\* Every request that arrived has answered
AllAnswered == pending # <<>> /\ \A k \in 1..Len(pending) : pending[k].pc = "done"

\* The registry is what the requests leave when they are served one after
\* another in some order, from the registry of the first load on
Serialised ==
  \E order \in Orders(Len(pending)) :
    LET Final(r) == View(tables, heap) = View(r.ts, r.h)
    IN  Final(ServedInOrder(Outcome(last, loadCSVFiles(<<>>, <<>>, FALSE),
                                    LoadedHeap(<<>>, 1)),
                            order, 1))

\* C14: requests are serialised over the registry: whatever the interleaving,
\* no request reads or writes the registry while another request is between
\* its first read and its last write of it (a load that has dropped the
\* file-backed tables and not yet read them again), and when all requests have
\* answered the registry is the result of running them one after another in
\* some order.
C14_RequestsSerialised ==
  [][/\ \A k \in 1..Len(pending) :
          (pending'[k] # pending[k] /\ AccessesRegistry(pending[k]))
            => \A j \in 1..Len(pending) \ {k} : ~InWindow(pending[j])
     /\ AllAnswered' => Serialised']_vars

\* A load and a COPY_TABLE have both answered with success, and the registry
\* has no table of the copy's new name
C14_CopyLostUnderLoad ==
  /\ AllAnswered
  /\ \E k \in 1..Len(pending) : pending[k].call.op = "GET_TABLES" /\ pending[k].ok
  /\ \E k \in 1..Len(pending) :
       /\ pending[k].call.op = "COPY_TABLE" /\ pending[k].ok
       /\ pending[k].call.n \notin DOMAIN tables
  /\ ~Serialised

\* C15: commands take effect on the registry in the order in which their
\* requests arrive: when command A arrived before command B, A's registry
\* update happens before B's.
C15_CommandsApplyInArrivalOrder ==
  \A a, b \in 1..Len(pending) :
    (/\ a < b
     /\ pending[a].call.op # "GET_TABLES" /\ pending[b].call.op # "GET_TABLES"
     /\ pending[b].applied # 0)
      => (pending[a].applied # 0 /\ pending[a].applied < pending[b].applied)

\* COPY_TABLE sales t2 arrived before DELETE_TABLE sales; the delete was
\* applied first and the copy then found no table sales
C15_LaterDeleteAppliedFirst ==
  /\ Len(pending) = 2
  /\ pending[1].call = [op |-> "COPY_TABLE", t |-> "sales", n |-> "t2"]
  /\ pending[2].call = [op |-> "DELETE_TABLE", t |-> "sales", n |-> ""]
  /\ pending[2].ok /\ pending[2].applied # 0
  /\ pending[1].applied > pending[2].applied /\ ~pending[1].ok
  /\ last.op = "COPY_TABLE" /\ last.kind = "notfound"

\* C16: for a table T of the registry and a name n not in it, COPY_TABLE(T, n)
\* followed by DELETE_TABLE(n) leaves the registry with the same set of names,
\* and T's schema, rows and source file as they were.
C16_CopyThenDeleteRestores ==
  \A T \in DOMAIN tables : \A n \in NewNames \ DOMAIN tables :
    LET Deleted(d) ==
          /\ d.resp.ok
          /\ DOMAIN d.ts = DOMAIN tables
          /\ View(d.ts, d.h)[T] = View(tables, heap)[T]
        Copied(c) ==
          /\ c.resp.ok
          /\ DOMAIN c.ts = DOMAIN tables \cup {n}
          /\ View(c.ts, c.h)[T] = View(tables, heap)[T]
          /\ Deleted(deleteTable(c.ts, c.h, n))
    IN  Copied(copyTable(tables, heap, T, n))

\* The copy t2 of a table was made and then deleted: the registry holds the
\* tables of the first load, as loaded
C16_CopiedThenDeleted ==
  /\ steps = 2
  /\ last.op = "DELETE_TABLE" /\ last.ok /\ last.t = "t2"
  /\ Len(heap) > Len(LoadedHeap(<<>>, 1))
  /\ View(tables, heap) = OnDisk

\* C17: for a table T of the registry and a name n not in it, RENAME_TABLE(T, n)
\* followed by RENAME_TABLE(n, T) restores the registry: the same names, each
\* with the same schema, rows and source file as before the two renames.
C17_RenameRoundTripIsIdentity ==
  \A T \in DOMAIN tables : \A n \in NewNames \ DOMAIN tables :
    LET Back(r) == r.resp.ok /\ View(r.ts, r.h) = View(tables, heap)
        There(r) == r.resp.ok /\ Back(renameTable(r.ts, r.h, n, T))
    IN  There(renameTable(tables, heap, T, n))

\* The table loaded from log.csv was renamed to t2 and back to log: its source
\* file is now log.CSV, which is not the file it was loaded from
C17_RenamedBackWithOtherFile ==
  /\ steps = 3
  /\ last.op = "RENAME_TABLE" /\ last.ok /\ last.t = "t2" /\ last.n = "log"
  /\ tables["log"].originalFile = "log.CSV"
  /\ OnDisk["log"].originalFile = "log.csv"
  /\ tables["log"].rows = OnDisk["log"].rows

\* The number an expression's result text is, with a pair of double quotes
\* around it left out, or NaN for text that is no number
ResultNumber(r) ==
  LET Bare(e) ==
        IF Len(e) = 1 /\ e[1].k = "num" THEN Num(e[1].n)
        ELSE IF Len(e) = 2 /\ e[1] = TOp("-") /\ e[2].k = "num" THEN Num(0 - e[2].n)
        ELSE NaN
      InQuotes(s) ==
        IF \E n \in NumRange : s = ToString(n)
        THEN Num(CHOOSE n \in NumRange : s = ToString(n))
        ELSE NaN
  IN  IF Len(r.toks) = 1 /\ r.toks[1].k = "dq" THEN InQuotes(r.toks[1].s)
      ELSE Bare(Trim(r.toks))

\* The rows C18 says stay: the expression is 0 on the row, fails, or yields
\* text that is no number
StaysByClaim(row, expression) ==
  LET Stays(r) == ~r.ok \/ ResultNumber(r) = NaN \/ ResultNumber(r) = Num(0)
  IN  Stays(evaluate(expression, Ctx(row)))

\* C18: DELETE_ROWS(T, e) leaves T's schema unchanged and replaces T's rows by
\* the rows, in their order, on which e is 0, fails or yields non-numeric text;
\* DELETE_ROWS(T, "0") leaves T unchanged, DELETE_ROWS(T, "1") leaves no rows.
C18_DeleteRowsKeepsZeroErrorText ==
  [][last'.op = "DELETE_ROWS" /\ last'.ok
       => LET T == last'.t
              e == last'.request
          IN  /\ DOMAIN tables' = DOMAIN tables
              /\ SchemaOf(heap', tables'[T].schema) = SchemaOf(heap, tables[T].schema)
              /\ tables'[T].rows =
                   SelectSeq(tables[T].rows, LAMBDA row : StaysByClaim(row, e))
              /\ e = Expr0 => tables'[T].rows = tables[T].rows
              /\ e = Expr1 => tables'[T].rows = <<>>]_vars

\* DELETE_ROWS(sales, "'5abc'") was served on the loaded table: the expression
\* yields the text 5abc on every row, and no row is left
C18_TextResultDeletesRows ==
  /\ steps = 2
  /\ last.op = "DELETE_ROWS" /\ last.ok /\ last.t = "sales"
  /\ last.request = Expr5abc
  /\ OnDisk["sales"].rows # <<>>
  /\ tables["sales"].rows = <<>>

\* The ways to list the positions 1..n in another order
Rearrangements(n) == {p \in [1..n -> 1..n] : \A i, j \in 1..n : p[i] = p[j] => i = j}

C20_DropChecksAllThenRemovesListed ==
  [][(last'.op = "DROP_COLUMNS" /\ last'.request # <<>>)
       => LET T == last'.t
              cols == {last'.request[i] : i \in 1..Len(last'.request)}
              before == View(tables, heap)[T]
              after == View(tables', heap')[T]
              listed == {before.schema[i].name : i \in 1..Len(before.schema)}
          IN  IF cols \subseteq listed
              THEN /\ last'.ok
                   /\ DOMAIN tables' = DOMAIN tables
                   /\ after.schema = SelectSeq(before.schema, LAMBDA d : d.name \notin cols)
                   /\ Len(after.rows) = Len(before.rows)
                   /\ \A i \in 1..Len(before.rows) :
                         /\ DOMAIN after.rows[i] = DOMAIN before.rows[i] \ cols
                         /\ \A k \in DOMAIN after.rows[i] :
                               after.rows[i][k] = before.rows[i][k]
                   /\ after.originalFile = before.originalFile
              ELSE /\ ~last'.ok
                   /\ View(tables', heap') = View(tables, heap)]_vars

\* DROP_COLUMNS sales [Name, X] was refused for the column X, and the column
\* Name, listed first, is still in the schema and in the rows
C20_MissingColumnNothingDropped ==
  /\ last.op = "DROP_COLUMNS" /\ ~last.ok /\ last.t = "sales"
  /\ last.request = <<"Name", "X">>
  /\ "Name" \in Names(heap, tables["sales"].schema)
  /\ "X" \notin Names(heap, tables["sales"].schema)
  /\ tables["sales"].rows # <<>>
  /\ \A i \in 1..Len(tables["sales"].rows) : "Name" \in DOMAIN tables["sales"].rows[i]

\* The rows of the listed tables, one table after the other
RECURSIVE RowsInListOrder(_, _)
RowsInListOrder(ts, list) ==
  IF list = <<>> THEN <<>> ELSE ts[Head(list)].rows \o RowsInListOrder(ts, Tail(list))

\* The two sequences of rows hold the same cells: reading any column of a row
\* gives the same value in both
SameCells(rows1, rows2) ==
  /\ Len(rows1) = Len(rows2)
  /\ \A i \in 1..Len(rows1) :
        \A c \in DOMAIN rows1[i] \cup DOMAIN rows2[i] : Get(rows1[i], c) = Get(rows2[i], c)

\* The descriptor objects a table's schema refers to
Descriptors(ts, nm) == {ts[nm].schema[i] : i \in 1..Len(ts[nm].schema)}

\* C21: SPLICE_TABLES(new, L) on tables with identical schemas creates new
\* with that schema and with the rows of the listed tables in list order; the
\* new table shares no descriptor with another table, and SPLICE_TABLES(new,
\* [A]) creates a table with A's schema and rows; the request that follows
\* SPLICE_TABLES(new, [A]) does not change both A and new.
C21_SpliceConcatenatesDeepCopies ==
  [][/\ (last'.op = "SPLICE_TABLES" /\ last'.ok)
          => (LET new == last'.n
                  L == last'.request
              IN  /\ new \notin DOMAIN tables
                  /\ DOMAIN tables' = DOMAIN tables \cup {new}
                  /\ \A i \in 1..Len(L) :
                        View(tables', heap')[new].schema = View(tables, heap)[L[i]].schema
                  /\ SameCells(tables'[new].rows, RowsInListOrder(tables, L))
                  /\ \A nm \in DOMAIN tables :
                        /\ View(tables', heap')[nm] = View(tables, heap)[nm]
                        /\ Descriptors(tables', new) \cap Descriptors(tables', nm) = {}
                  /\ Len(L) = 1 =>
                        /\ View(tables', heap')[new].schema = View(tables, heap)[L[1]].schema
                        /\ SameCells(tables'[new].rows, tables[L[1]].rows))
     /\ (last.op = "SPLICE_TABLES" /\ last.ok /\ Len(last.request) = 1
           /\ {last.n, last.request[1]} \subseteq DOMAIN tables')
          => ~(/\ View(tables', heap')[last.n] # View(tables, heap)[last.n]
               /\ View(tables', heap')[last.request[1]]
                     # View(tables, heap)[last.request[1]])]_vars

\* SPLICE_TABLES t3 [sales, t2] succeeded on two tables whose rows differ: t3
\* holds the rows of sales and then those of t2
C21_SplicedTwoDifferentTables ==
  /\ last.op = "SPLICE_TABLES" /\ last.ok /\ last.n = "t3"
  /\ last.request = <<"sales", "t2">>
  /\ tables["sales"].rows # tables["t2"].rows
  /\ tables["t3"].rows = tables["sales"].rows \o tables["t2"].rows
  /\ tables["t3"].rows # tables["t2"].rows \o tables["sales"].rows

\* Two schemas differ: in the number of columns, or in the name or the type at
\* some position
SchemasDiffer(schema1, schema2) ==
  \/ Len(schema1) # Len(schema2)
  \/ \E i \in 1..Len(schema1) :
        schema1[i].name # schema2[i].name \/ schema1[i].type # schema2[i].type

Matching(right, joinColumn, value) ==
  {j \in 1..Len(right.rows) : Get(right.rows[j], joinColumn) = value}

\* The columns of right that left does not have
RightOnly(ts, h, left, right) ==
  {j \in 1..Len(ts[right].schema) :
     h[ts[right].schema[j]].name \notin Names(h, ts[left].schema)}

\* C23: JOIN_TABLE(left, right, joinColumn, new) creates a table with one row
\* per row of left, in left's order, in which every column that only right has
\* holds the value of the first row of right with the left row's joinColumn
\* value, or the default of the column's type when right has no such row; left
\* and right are as before.
C23_JoinTakesFirstMatchOrDefault ==
  [][(last'.op = "JOIN_TABLE" /\ last'.ok)
       => LET l == last'.t
              r == last'.request[1]
              joinColumn == last'.request[2]
              left == tables[l]
              right == tables[r]
              new == tables'[last'.n]
          IN  /\ Len(new.rows) = Len(left.rows)
              /\ \A i \in 1..Len(left.rows) :
                    /\ Get(new.rows[i], joinColumn) = Get(left.rows[i], joinColumn)
                    /\ \A j \in RightOnly(tables, heap, l, r) :
                          LET col == heap[right.schema[j]]
                              M == Matching(right, joinColumn, Get(left.rows[i], joinColumn))
                          IN  Get(new.rows[i], col.name) =
                                IF M = {} THEN TypeDefault(col.type)
                                ELSE Get(right.rows[CHOOSE m \in M : \A k \in M : m <= k],
                                         col.name)
              /\ View(tables', heap')[l] = View(tables, heap)[l]
              /\ View(tables', heap')[r] = View(tables, heap)[r]]_vars

\* JOIN_TABLE log sales Name t3 succeeded with a left row whose Name is
\* constructor and no such row in sales: the row's Date in t3, a column only
\* sales has, is undefined and not the default of TEXT
C23_InheritedKeyTakenForMatch ==
  /\ last.op = "JOIN_TABLE" /\ last.ok /\ last.t = "log" /\ last.n = "t3"
  /\ last.request = <<"sales", "Name">>
  /\ Matching(tables["sales"], "Name", Str("constructor")) = {}
  /\ \E i \in 1..Len(tables["t3"].rows) :
        /\ Get(tables["t3"].rows[i], "Name") = Str("constructor")
        /\ Get(tables["t3"].rows[i], "Date") = Undefined
        /\ TypeDefault("TEXT") # Undefined

\* C24: in the table JOIN_TABLE creates every column of left holds the left
\* row's value in every row, and the schema is left's schema followed by the
\* columns only right has: a column of right with the name of a left column
\* adds no schema entry and no cell value.
C24_JoinKeepsLeftColumns ==
  [][(last'.op = "JOIN_TABLE" /\ last'.ok)
       => LET l == last'.t
              r == last'.request[1]
              left == View(tables, heap)[l]
              right == View(tables, heap)[r]
              new == View(tables', heap')[last'.n]
          IN  /\ new.schema = left.schema \o
                    SelectSeq(right.schema,
                              LAMBDA col : col.name \notin Names(heap, tables[l].schema))
              /\ Len(new.rows) = Len(left.rows)
              /\ \A i \in 1..Len(left.rows) :
                    \A c \in Names(heap, tables[l].schema) :
                       Get(new.rows[i], c) = Get(left.rows[i], c)]_vars

\* JOIN_TABLE sales log Name t2 succeeded, and the row of sales that has no
\* match in log has lost its Amount: t2 holds 0 where sales holds 12
C24_LeftAmountOverwritten ==
  /\ last.op = "JOIN_TABLE" /\ last.ok /\ last.t = "sales" /\ last.n = "t2"
  /\ last.request = <<"log", "Name">>
  /\ Len(tables["t2"].rows) = Len(tables["sales"].rows)
  /\ \E i \in 1..Len(tables["sales"].rows) :
        /\ Get(tables["sales"].rows[i], "Name") = Get(tables["t2"].rows[i], "Name")
        /\ Get(tables["sales"].rows[i], "Amount") = Num(12)
        /\ Get(tables["t2"].rows[i], "Amount") = Num(0)

\* The arithmetic sum of the column over the rows from the i-th on: a cell
\* counts as the number it is or, for a text, the number it spells
SumRange == (0 - 4 * MaxNum)..(4 * MaxNum)
Spelled(v) ==
  IF v.t = "num" THEN v.n
  ELSE IF v.t = "str" /\ \E n \in SumRange : v.s = ToString(n)
  THEN CHOOSE n \in SumRange : v.s = ToString(n)
  ELSE 0

RECURSIVE Total(_, _, _)
Total(rows, columnName, i) ==
  IF i > Len(rows) THEN 0
  ELSE Spelled(Get(rows[i], columnName)) + Total(rows, columnName, i + 1)

\* The rows whose group column holds the value
InGroup(rows, columnName, value) == SelectSeq(rows, LAMBDA row : Get(row, columnName) = value)

\* C25: COLLAPSE_TABLE and GROUP_TABLE create a table with one row per
\* distinct value of the group column (COLLAPSE_TABLE without columnName: one
\* row), in which every summed column holds the arithmetic sum of the column
\* over the source rows of the group, so that the column's total over the new
\* table is its total over the source table.
C25_GroupsHoldArithmeticSums ==
  [][(last'.op \in {"COLLAPSE_TABLE", "GROUP_TABLE"} /\ last'.ok)
       => LET source == tables[last'.t].rows
              new == tables'[last'.n].rows
              columnName == last'.request[1]
              summed == last'.request[2]
              values == {Get(source[i], columnName) : i \in 1..Len(source)}
          IN  /\ Len(new) = IF columnName = "" THEN 1 ELSE Cardinality(values)
              /\ \A j \in 1..Len(summed) :
                    /\ Total(new, summed[j], 1) = Total(source, summed[j], 1)
                    /\ \A i \in 1..Len(new) :
                          Get(new[i], summed[j]) =
                            Num(Total(IF columnName = "" THEN source
                                      ELSE InGroup(source, columnName, Get(new[i], columnName)),
                                      summed[j], 1))]_vars

\* COLLAPSE_TABLE sales (no group column) succeeded on a table whose INT
\* column X was produced by ADD_COLUMN from Amount + 1: the one row of the new
\* table holds in X a text, the cells of X written one after the other, where
\* the sum of the column is 19
C25_AddedColumnConcatenated ==
  /\ last.op = "COLLAPSE_TABLE" /\ last.ok /\ last.t = "sales"
  /\ last.request = <<"", <<"Amount", "X">>>>
  /\ Total(tables["sales"].rows, "X", 1) = 19
  /\ Len(tables[last.n].rows) = 1
  /\ Get(tables[last.n].rows[1], "Amount") = Num(17)
  /\ Get(tables[last.n].rows[1], "X") = Str("0613")

\* How often x occurs in the sequence
Occurrences(seq, x) == Cardinality({i \in 1..Len(seq) : seq[i] = x})

\* The two sequences hold the same elements, each as often as the other
IsPermutation(seq1, seq2) ==
  /\ Len(seq1) = Len(seq2)
  /\ \A i \in 1..Len(seq1) : Occurrences(seq1, seq1[i]) = Occurrences(seq2, seq1[i])

\* C26: REORDER_COLUMNS(T, cols) with every listed column in T's schema yields
\* a permutation of the schema, the listed columns first in the listed order
\* and then the other columns in their order, and leaves the rows; with a
\* listed column that is missing it fails and T is unchanged.
C26_ReorderPermutesSchema ==
  [][(last'.op = "REORDER_COLUMNS" /\ last'.request # <<>>)
       => LET T == last'.t
              cols == last'.request
              listed == {cols[j] : j \in 1..Len(cols)}
              before == View(tables, heap)[T]
              after == View(tables', heap')[T]
          IN  IF listed \subseteq Names(heap, tables[T].schema)
              THEN /\ last'.ok
                   /\ IsPermutation(tables'[T].schema, tables[T].schema)
                   /\ Len(after.schema) >= Len(cols)
                   /\ \A j \in 1..Len(cols) : after.schema[j].name = cols[j]
                   /\ SubSeq(after.schema, Len(cols) + 1, Len(after.schema))
                        = SelectSeq(before.schema, LAMBDA d : d.name \notin listed)
                   /\ after.rows = before.rows
              ELSE /\ ~last'.ok
                   /\ View(tables', heap') = View(tables, heap)]_vars

\* REORDER_COLUMNS sales [Amount, Amount] succeeded on the schema Name, Amount,
\* Date: the schema now has four entries, the column Amount twice
C26_ColumnListedTwiceIsDoubled ==
  /\ last.op = "REORDER_COLUMNS" /\ last.ok /\ last.t = "sales"
  /\ last.request = <<"Amount", "Amount">>
  /\ [i \in 1..Len(tables["sales"].schema) |-> heap[tables["sales"].schema[i]].name]
       = <<"Amount", "Amount", "Name", "Date">>
  /\ tables["sales"].schema[1] = tables["sales"].schema[2]

\* The row with the cell of old moved to new
Renamed(row, old, new) == Put(Delete(row, {old}), new, Get(row, old))

\* C27: the command entry point accepts RENAME_COLUMN and SET_VALUE:
\* RENAME_COLUMN on an existing column with an unused new name succeeds and
\* rewrites the schema and every row, and fails when old is missing or new
\* exists; SET_VALUE on an existing column succeeds and overwrites the column
\* in every row with the result of the expression.
C27_EntryPointServesColumnCommands ==
  [][/\ (last'.op = "RENAME_COLUMN" /\ last'.t \in DOMAIN tables)
          => LET T == last'.t
                 old == last'.request[1]
                 new == last'.request[2]
                 before == View(tables, heap)[T]
                 after == View(tables', heap')[T]
                 names == Names(heap, tables[T].schema)
             IN  IF old \in names /\ new \notin names
                 THEN /\ last'.ok
                      /\ after.schema =
                           [i \in 1..Len(before.schema) |->
                              IF before.schema[i].name = old
                              THEN [before.schema[i] EXCEPT !.name = new]
                              ELSE before.schema[i]]
                      /\ after.rows =
                           [i \in 1..Len(before.rows) |-> Renamed(before.rows[i], old, new)]
                 ELSE /\ ~last'.ok
                      /\ View(tables', heap') = View(tables, heap)
     /\ (/\ last'.op = "SET_VALUE" /\ last'.t \in DOMAIN tables
         /\ last'.request[1] \in Names(heap, tables[last'.t].schema))
          => LET T == last'.t
                 columnName == last'.request[1]
                 expression == last'.request[2]
             IN  /\ last'.ok
                 /\ Len(tables'[T].rows) = Len(tables[T].rows)
                 /\ \A i \in 1..Len(tables[T].rows) :
                       LET r == evaluate(expression, Ctx(tables[T].rows[i]))
                       IN  r.ok => Get(tables'[T].rows[i], columnName) = r.value]_vars

\* RENAME_COLUMN sales Name -> N2, with Name in the schema and N2 not, was
\* answered as an unknown command, and the schema still holds Name
C27_RenameColumnIsUnknown ==
  /\ last.op = "RENAME_COLUMN" /\ ~last.ok /\ last.kind = "unknown"
  /\ last.t = "sales" /\ last.request = <<"Name", "N2">>
  /\ "sales" \in DOMAIN tables
  /\ "Name" \in Names(heap, tables["sales"].schema)
  /\ "N2" \notin Names(heap, tables["sales"].schema)

\* The value evaluate gives for the expression on a row without cells
ValueOf(e) == evaluate(e, Ctx(<<>>)).value

\* C28: nested conditionals associate to the right: a ? b ? c : d : e has the
\* value of a ? (b ? c : d) : e, and a ? b : c ? d : e has the value of
\* a ? b : (c ? d : e), for all numeric operands.
C28_NestedConditionalsAssociateRight ==
  last.op = "EVALUATE" =>
    \A v \in Quintuples :
       /\ last.request = NestedInTrue(v)
            => (last.ok /\ last.row.value = ValueOf(GroupedInTrue(v)))
       /\ last.request = NestedInFalse(v)
            => (last.ok /\ last.row.value = ValueOf(GroupedInFalse(v)))

\* 1 ? 1 ? 2 : 0 : 0 was evaluated: the result is the text 2 : 0, where
\* 1 ? (1 ? 2 : 0) : 0 gives 2
C28_TrueBranchCutAtInnerQuestion ==
  /\ last.op = "EVALUATE" /\ last.ok
  /\ last.request = NestedInTrue(<<1, 1, 2, 0, 0>>)
  /\ last.row.value = Str("2 : 0")
  /\ ValueOf(GroupedInTrue(<<1, 1, 2, 0, 0>>)) = Str("2")

\* C29: for all expressions a and b that evaluate without error, 0 ? a : b
\* has the value of b and 1 ? a : b has the value of a.
C29_ConditionSelectsBranch ==
  last.op = "EVALUATE" =>
    \A a \in Branches, b \in Branches :
       (evaluate(a, Ctx(<<>>)).ok /\ evaluate(b, Ctx(<<>>)).ok)
         => /\ last.request = CondExpr(Operand(0), a, b)
                 => (last.ok /\ last.row.value = ValueOf(b))
            /\ last.request = CondExpr(Operand(1), a, b)
                 => (last.ok /\ last.row.value = ValueOf(a))

\* 1 ? 1 ? 0 : 2 : 2 was evaluated, the expression 1 ? a : b with 1 ? 0 : 2
\* for a, which evaluates to 0: the result is not 0
C29_ConditionalAsTrueBranch ==
  /\ last.op = "EVALUATE"
  /\ last.request = CondExpr(Operand(1), CondExpr(Operand(1), Operand(0), Operand(2)), Operand(2))
  /\ ValueOf(CondExpr(Operand(1), Operand(0), Operand(2))) = Str("0")
  /\ last.row.value # Str("0")

\* C30: comparison binds tighter than && and ||: for all numeric operands
\* x < y && z < w evaluates to 1 exactly when x < y and z < w, and
\* x > y || z > w evaluates to 1 exactly when x > y or z > w.
C30_ComparisonBindsTighterThanBoolean ==
  last.op = "EVALUATE" =>
    \A v \in Quadruples :
       /\ last.request = Both(v)
            => (last.ok /\ (last.row.value = Str("1") <=> (v[1] < v[2] /\ v[3] < v[4])))
       /\ last.request = Either(v)
            => (last.ok /\ (last.row.value = Str("1") <=> (v[1] > v[2] \/ v[3] > v[4])))

\* 1 < 1 && 0 < 1 was evaluated to 1, though 1 < 1 does not hold
C30_BooleanTakenBeforeComparison ==
  /\ last.op = "EVALUATE" /\ last.ok
  /\ last.request = Both(<<1, 1, 0, 1>>)
  /\ last.row.value = Str("1")

\* The text of a whole number as the evaluator returns it
NumberText(n) == Str(Render(NumToks(n)))

\* C31: + and - have one precedence and associate to the left, and so do *
\* and /: for non-negative integer literals a - b + c evaluates to
\* (a - b) + c, a + b + c to the one number a + b + c, and a / b * c to
\* (a / b) * c.
C31_ArithmeticAssociatesLeft ==
  last.op = "EVALUATE" =>
    /\ \A v \in Triples :
         /\ last.request = Chain(v, "-", "+")
              => (last.ok /\ last.row.value = NumberText((v[1] - v[2]) + v[3]))
         /\ last.request = Chain(v, "+", "+")
              => (last.ok /\ last.row.value = NumberText(v[1] + v[2] + v[3]))
    /\ \A v \in Quotients :
         last.request = Chain(v, "/", "*")
           => (last.ok /\ last.row.value = NumberText((v[1] \div v[2]) * v[3]))

\* 8 / 2 * 2 was evaluated to 2, where (8 / 2) * 2 is 8
C31_ProductTakenBeforeQuotient ==
  /\ last.op = "EVALUATE" /\ last.ok
  /\ last.request = Chain(<<8, 2, 2>>, "/", "*")
  /\ last.row.value = NumberText(2)
  /\ NumberText((8 \div 2) * 2) = Str("8")

\* The text and the number an operand of Comparisons stands for on EvalRow
TextOf(x) == IF x = <<TId("Name")>> THEN EvalRow.Name.s ELSE x[1].s
NumberOf(x) == IF x = <<TId("Amount")>> THEN EvalRow.Amount.n ELSE x[1].n
Holds(op, less, equal) ==
  CASE op = "<" -> less
    [] op = ">" -> ~less /\ ~equal
    [] op = "=" -> equal
    [] OTHER -> ~equal

\* C32: a comparison of a TEXT operand with a numeric operand is an error;
\* TEXT with TEXT compares by the order of strings and numbers compare by
\* value, the result being 1 or 0.
C32_ComparisonChecksOperandTypes ==
  (last.op = "EVALUATE" /\ last.request \in Comparisons) =>
    \A x, y \in Texts \cup Numbers, op \in Comparators :
      last.request = Comparison(x, op, y) =>
        /\ (x \in Texts /\ y \in Texts) =>
             /\ last.ok
             /\ last.row.value =
                  NumberText(IF Holds(op, StrLess(TextOf(x), TextOf(y)), TextOf(x) = TextOf(y))
                             THEN 1 ELSE 0)
        /\ (x \in Numbers /\ y \in Numbers) =>
             /\ last.ok
             /\ last.row.value =
                  NumberText(IF Holds(op, NumberOf(x) < NumberOf(y), NumberOf(x) = NumberOf(y))
                             THEN 1 ELSE 0)
        /\ ((x \in Texts) # (y \in Texts)) => ~last.ok

\* ('a' < 2) was refused and ('5' < '12') was answered 0, by the order of strings
C32_TextAgainstNumberRefused ==
  /\ last.op = "EVALUATE"
  /\ \/ last.request = Comparison(<<TSq("a")>>, "<", <<TNum(2)>>) /\ ~last.ok
     \/ /\ last.request = Comparison(<<TSq("5")>>, "<", <<TSq("12")>>)
        /\ last.ok /\ last.row.value = Str("0")

\* C33: BLANK is 1 exactly when the value of its argument is the empty text
\* or the number 0, for a literal as for a cell: BLANK("") = 1, BLANK("x") = 0,
\* BLANK(0) = 1, and BLANK(c) = 1 for a cell c that holds '' or 0.
C33_BlankTellsEmptyValues ==
  (last.op = "EVALUATE" /\ last.request \in BlankCalls) =>
    /\ last.ok
    /\ \A x \in BlankArgs :
         last.request = FuncCall("BLANK", x) =>
           last.row.value =
             NumberText(IF CASE x[1].k = "num" -> x[1].n = 0
                             [] x[1].k = "id" -> last.row.row[x[1].s] \in {Str(""), Num(0)}
                             [] OTHER -> x[1].s = ""
                        THEN 1 ELSE 0)

\* BLANK(0) was evaluated to 0
C33_ZeroLiteralNotBlank ==
  /\ last.op = "EVALUATE" /\ last.ok
  /\ last.request = FuncCall("BLANK", <<TNum(0)>>)
  /\ last.row.value = Str("0")

\* The sum of a column of numbers over the rows of a table of the registry, 0
\* when the table or the column is missing
ColumnSum(nm, col) ==
  IF nm \in DOMAIN tables /\ col \in Names(heap, tables[nm].schema)
  THEN SumColumn(tables[nm].rows, 1, col) ELSE 0

\* C34: TOTAL(table, col) is the sum of the column over all rows of the named
\* table, and 0 when the table or the column is missing, on every current
\* row, also when col names a cell of the current row, and with col bare or
\* in quotes.
C34_TotalSumsNamedColumn ==
  (last.op = "EVALUATE" /\ last.request \in TotalCalls) =>
    /\ last.ok
    /\ \A t \in TotalTables, c \in TotalColumns :
         last.request = FuncCall2("TOTAL", t, c)
           => last.row.value = NumberText(ColumnSum(t[1].s, c[1].s))

\* TOTAL(sales, Amount) was evaluated to 0 on a row of sales, whose Amount
\* column sums to 17
C34_ColumnNameTakenForCell ==
  /\ last.op = "EVALUATE" /\ last.ok
  /\ last.request = FuncCall2("TOTAL", <<TId("sales")>>, <<TId("Amount")>>)
  /\ last.row.row # <<>>
  /\ last.row.value = Str("0")
  /\ ColumnSum("sales", "Amount") = 17

\* C35: the load of a saved table gives the schema, the number of rows, their
\* order and the cells the table had when it was saved (the numbers of the
\* model are whole, so a REAL cell is its own rounding), also for TEXT cells
\* that are empty or hold commas, quotes, line breaks or outer spaces.
C35_SaveThenLoadRoundTrips ==
  (last.op = "GET_TABLES" /\ last.request # <<>>) =>
    /\ SchemaOf(heap, tables[last.t].schema) = last.request.schema
    /\ tables[last.t].rows = last.request.rows

\* A cell that was a space and a letter came back as the letter alone
C35_OuterSpaceLost ==
  /\ last.op = "GET_TABLES" /\ last.request # <<>>
  /\ Len(last.request.rows) = 1 /\ Len(tables[last.t].rows) = 1
  /\ last.request.rows[1].Name = Str(" a")
  /\ tables[last.t].rows[1].Name = Str("a")

C37_RemovedTableStaysRemoved ==
  [][\A T \in CsvNames :
       (T \notin DOMAIN tables /\ T \in DOMAIN tables')
         => (last'.op = "RESTART" \/ (last'.op # "GET_TABLES" /\ last'.ok /\ last'.n = T))]_vars

\* sales was renamed to t2, which keeps the descriptors sales was loaded
\* with, and the load that followed put sales back into the registry
C37_RenamedTableLoadedAgain ==
  /\ last.op = "GET_TABLES" /\ steps = 2
  /\ "t2" \in DOMAIN tables /\ tables["t2"].schema = <<3, 4, 5>>
  /\ "sales" \in DOMAIN tables

\* The table has a number column X whose cells all spell a number
NumberColumnX(T) ==
  /\ T \in DOMAIN tables
  /\ Find(heap, tables[T].schema, "X") # 0
  /\ heap[tables[T].schema[Find(heap, tables[T].schema, "X")]].type \in {"INT", "REAL"}
  /\ \A i \in 1..Len(tables[T].rows) : ToNumber(Get(tables[T].rows[i], "X")).t = "num"

\* The rows whose X is not greater than k, in their order
RECURSIVE NotAbove(_, _)
NotAbove(rows, k) ==
  IF rows = <<>> THEN <<>>
  ELSE (IF ToNumber(Get(Head(rows), "X")).n > k THEN <<>> ELSE <<Head(rows)>>)
         \o NotAbove(Tail(rows), k)

\* C38: on a column X made by ADD_COLUMN with type INT or REAL from an
\* expression that is a number on every row, DELETE_ROWS(T, 'X > k') deletes
\* exactly the rows whose X is greater than k, and SORT_TABLE on X orders the
\* rows by the number X is.
C38_AddedColumnIsNumeric ==
  [][\A T \in ColumnTables :
       NumberColumnX(T) =>
         /\ \A k \in Thresholds :
              (last'.op = "DELETE_ROWS" /\ last'.t = T /\ last'.request = ExprXAbove(k))
                => tables'[T].rows = NotAbove(tables[T].rows, k)
         /\ (last'.op = "SORT_TABLE" /\ last'.t = T /\ last'.n = "X")
              => /\ IsPermutation(tables'[T].rows, tables[T].rows)
                 /\ \A i, j \in 1..Len(tables'[T].rows) :
                      i < j => IF last'.request = <<"asc">>
                               THEN ToNumber(tables'[T].rows[i].X).n
                                      <= ToNumber(tables'[T].rows[j].X).n
                               ELSE ToNumber(tables'[T].rows[i].X).n
                                      >= ToNumber(tables'[T].rows[j].X).n]_vars

\* DELETE_ROWS(sales, 'X > 3') left both rows of sales, whose X cells are the
\* texts 4 and 11
C38_NoRowDeleted ==
  /\ last.op = "DELETE_ROWS" /\ last.ok /\ last.t = "sales"
  /\ last.request = ExprXAbove(3)
  /\ NumberColumnX("sales")
  /\ Len(tables["sales"].rows) = 2
  /\ tables["sales"].rows[1].X = Str("4") /\ tables["sales"].rows[2].X = Str("11")

\* C39: a literal in single quotes evaluates to the text between the quotes
\* on every row, also when that text is the name of a cell of the row.
C39_QuotedLiteralIsItsContent ==
  (last.op = "EVALUATE" /\ last.request \in QuotedLiterals) =>
    (last.ok /\ last.row.value = Str(last.request[1].s))

\* 'Amount' was evaluated to 5, the cell Amount of the row
C39_LiteralReadAsCell ==
  /\ last.op = "EVALUATE" /\ last.ok
  /\ last.request = <<TSq("Amount")>>
  /\ last.row.row = EvalRow
  /\ last.row.value = Str("5")

\* C40: a row update that succeeds replaces the row at rowIndex of the rows
\* the table has when the write is made, and leaves the number of rows and
\* every other row as they are; an update whose index is out of range is
\* answered with a failure and the registry is left alone. This is so too
\* when rows of the table were deleted while the update waited for its rules.
C40_UpdateReplacesOneRow ==
  [][last'.op = "ROW_UPDATE" /\ last' # last =>
       LET before == IF last'.t \in DOMAIN tables THEN tables[last'.t].rows ELSE <<>>
           after == IF last'.t \in DOMAIN tables' THEN tables'[last'.t].rows ELSE <<>>
       IN  /\ last'.ok =>
                /\ last'.rowIndex < Len(before)
                /\ Len(after) = Len(before)
                /\ after[last'.rowIndex + 1] = last'.row
                /\ \A j \in 1..Len(before) :
                     j # last'.rowIndex + 1 => after[j] = before[j]
           /\ ~last'.ok => tables' = tables]_vars

\* The update of row 1 of sales was made after row 0 had been deleted: the
\* row it was sent for is still there, and the new row stands after it
C40_UpdateAppendedAfterDelete ==
  /\ last.op = "ROW_UPDATE" /\ last.ok /\ last.t = "sales" /\ last.rowIndex = 1
  /\ Len(tables["sales"].rows) = 2
  /\ tables["sales"].rows[1] = ParseRow(parseSchema(SalesFile.schema), SalesFile.lines[2])
  /\ tables["sales"].rows[2] = last.row

====
